---- MODULE Spec2Model ----
(***************************************************************************)
(* PM2.5 analysis: the dataframe transformations of stats.py, the heatmap  *)
(* grid of plots.py and the acquisition pipeline of get_data (known here   *)
(* through its tests).                                                     *)
(*                                                                         *)
(* A dataframe is a record [columns, rows]: the ordered column names and   *)
(* the ordered rows, each row a function from column name to value.        *)
(* A float is a tuple: <<>> is NaN, <<n, d>> is the reduced fraction n/d   *)
(* with d > 0.  A timestamp is [sec, ms], seconds since 1970-01-01 and the *)
(* sub-second part in milliseconds.  A calendar date is <<y, m, d>>.       *)
(* Column names are written without diacritics: Miejscowosc, Miesiac.      *)
(***************************************************************************)
EXTENDS Integers, Sequences, FiniteSets, TLC

VARIABLES
    pc,           \* the call the script makes next
    pandas_stack, \* "legacy" (pandas < 3) or "future" (pandas >= 3) DataFrame.stack
    df_pm25,      \* wide frame given to convert_df
    formated,     \* long frame: datetime, Miejscowosc, Kod stacji, PM25
    monthly_means,\* result of calc_monthly_means
    city_monthly, \* result of calc_monthly_city_means
    daily,        \* daily means frame given to count_overnorm_days
    threshold,    \* threshold given to count_overnorm_days
    over_counts,  \* exceedance counts frame given to top_bottom_stations
    year, n,      \* arguments of top_bottom_stations
    top_bottom,   \* result of top_bottom_stations
    make,         \* arguments and locals of make_pm25_data
    calls,        \* the calls make_pm25_data has made: [fn, args, ret]
    csv,          \* the CSV files written: [path, frame]
    treshold,     \* treshold given to wojew_over_treshold
    wojew_counts, \* result of wojew_over_treshold
    recount,      \* a second count_overnorm_days of the same daily frame
    plot          \* arguments and figure of heatmaps_means

vars == <<pc, pandas_stack, df_pm25, formated, monthly_means, city_monthly,
          daily, threshold, over_counts, year, n, top_bottom, make, calls, csv,
          treshold, wojew_counts, recount, plot>>

stats_vars == <<pandas_stack, df_pm25, formated, monthly_means, city_monthly,
                daily, threshold, over_counts, year, n, top_bottom>>
get_vars == <<make, calls, csv>>
report_vars == <<treshold, wojew_counts, recount, plot>>

None == [columns |-> <<>>, rows |-> <<>>, none |-> TRUE]
Frame(cols, rows) == [columns |-> cols, rows |-> rows]

(***************************************************************************)
(* Bounds of the model.                                                    *)
(***************************************************************************)
MaxRows == 3       \* rows of a long frame given directly
MaxDailyRows == 3  \* rows of a daily frame given directly
MaxCountRows == 4  \* rows of an exceedance-count frame given directly
MaxTimes == 2      \* timestamps (rows) of a wide frame
MaxRawRows == 2    \* data rows of a raw archive frame
MaxN == 2          \* largest n given to top_bottom_stations
MaxWojewRows == 4  \* rows of a long frame given to wojew_over_treshold
MaxCities == 19    \* localities of a frame given to heatmaps_means

(***************************************************************************)
(* Floats as exact fractions.                                              *)
(***************************************************************************)
NaN == <<>>
IsNaN(v) == Len(v) = 0

Abs(i) == IF i < 0 THEN -i ELSE i
Min(a, b) == IF a < b THEN a ELSE b

RECURSIVE GCD(_, _)
GCD(a, b) == IF b = 0 THEN a ELSE GCD(b, a % b)

Frac(num, den) ==
    LET g == GCD(Abs(num), den)
    IN  <<num \div g, den \div g>>

Num(i) == <<i, 1>>
RAdd(a, b) == Frac(a[1] * b[2] + b[1] * a[2], a[2] * b[2])
RDivInt(a, k) == Frac(a[1], a[2] * k)
\* a > t for a float a and an integer t; any comparison with NaN is False
GtInt(a, t) == IF IsNaN(a) THEN FALSE ELSE a[1] > t * a[2]

RECURSIVE RSum(_)
RSum(s) == IF s = <<>> THEN Num(0) ELSE RAdd(s[1], RSum(Tail(s)))

\* faulty variant: the sum taken for the mean
Mean_sum(s) ==
    LET xs == SelectSeq(s, LAMBDA v : ~IsNaN(v))
    IN  IF xs = <<>> THEN NaN ELSE RSum(xs)

\* faulty variant: skipna=False, one NaN makes the mean NaN
Mean_keepna(s) ==
    IF \E i \in 1..Len(s) : IsNaN(s[i]) \/ s = <<>> THEN NaN
    ELSE RDivInt(RSum(s), Len(s))

\* Series.mean(): NaN entries are skipped; NaN when nothing is left
Mean(s) ==
    LET xs == SelectSeq(s, LAMBDA v : ~IsNaN(v))
    IN  IF xs = <<>> THEN NaN ELSE RDivInt(RSum(xs), Len(xs))

(***************************************************************************)
(* Timestamps and the .dt accessors.                                       *)
(***************************************************************************)
SecondsPerDay == 86400

\* civil date <<y, m, d>> of a day number counted from 1970-01-01
CivilFromDays(days) ==
    LET z   == days + 719468
        era == z \div 146097
        doe == z - era * 146097
        yoe == (doe - doe \div 1460 + doe \div 36524 - doe \div 146096) \div 365
        doy == doe - (365 * yoe + yoe \div 4 - yoe \div 100)
        mp  == (5 * doy + 2) \div 153
        d   == doy - (153 * mp + 2) \div 5 + 1
        m   == IF mp < 10 THEN mp + 3 ELSE mp - 9
        y   == yoe + era * 400 + (IF m <= 2 THEN 1 ELSE 0)
    IN  <<y, m, d>>

dt_date(ts)  == CivilFromDays(ts.sec \div SecondsPerDay)
dt_year(ts)  == dt_date(ts)[1]
dt_month(ts) == dt_date(ts)[2]

Ts(sec) == [sec |-> sec, ms |-> 0]

(***************************************************************************)
(* Names and their order (Python string comparison, used by the sorted     *)
(* group keys of groupby).                                                 *)
(***************************************************************************)
StrRank ==
    ("" :> 0) @@ ("Bydgoszcz" :> 1) @@ ("DsJelGorOgin" :> 2) @@
    ("DsWrocAlWisn" :> 3) @@ ("DsWrocAlWisnNew" :> 4) @@ ("DsWrocWybCon" :> 5) @@
    ("Jelenia Gora" :> 6) @@ ("KpBydPlPozna" :> 7) @@ ("Wroclaw" :> 8) @@
    ("datetime" :> 9) @@ ("dolnoslaskie" :> 10) @@ ("kujawsko-pomorskie" :> 11)

RECURSIVE LexLess(_, _)
LexLess(a, b) ==
    IF a = <<>> THEN b # <<>>
    ELSE IF b = <<>> THEN FALSE
    ELSE IF a[1] # b[1] THEN a[1] < b[1]
    ELSE LexLess(Tail(a), Tail(b))

\* a set of records [code, key] as the sequence of its keys, ascending in
\* code (an integer tuple)
RECURSIVE SortByCode(_)
SortByCode(S) ==
    IF S = {} THEN <<>>
    ELSE LET m == CHOOSE x \in S : \A y \in S \ {x} : LexLess(x.code, y.code)
         IN  <<m.key>> \o SortByCode(S \ {m})

Range(s) == {s[i] : i \in 1..Len(s)}
Col(rows, c) == [i \in 1..Len(rows) |-> rows[i][c]]

(***************************************************************************)
(* convert_df.  A wide frame has the columns ("datetime", "") and one      *)
(* (Miejscowosc, Kod stacji) pair per station; a station cell is a float   *)
(* [kind "float"] or a text [kind "str", a tuple of characters].           *)
(***************************************************************************)
LongColumns == <<"datetime", "Miejscowosc", "Kod stacji", "PM25">>

F(v) == [kind |-> "float", v |-> v]
S(chars) == [kind |-> "str", v |-> chars]

DatetimeColumn == <<"datetime", "">>

Digits == <<"0", "1", "2", "3", "4", "5", "6", "7", "8", "9">>
DigitVal ==
    ("0" :> 0) @@ ("1" :> 1) @@ ("2" :> 2) @@ ("3" :> 3) @@ ("4" :> 4) @@
    ("5" :> 5) @@ ("6" :> 6) @@ ("7" :> 7) @@ ("8" :> 8) @@ ("9" :> 9)

\* the decimal digits of a natural number
RECURSIVE NatStr(_)
NatStr(i) ==
    IF i < 10 THEN <<Digits[i + 1]>>
    ELSE NatStr(i \div 10) \o <<Digits[(i % 10) + 1]>>

\* the digits after the point of rem/den, den a divisor of a power of ten
RECURSIVE FracStr(_, _)
FracStr(rem, den) ==
    IF rem = 0 THEN <<>>
    ELSE <<Digits[((rem * 10) \div den) + 1]>> \o FracStr((rem * 10) % den, den)

\* str(float): "nan", or the shortest decimal, with at least one digit after
\* the point
FloatStr(v) ==
    IF IsNaN(v) THEN <<"n", "a", "n">>
    ELSE LET a == Abs(v[1])
             f == FracStr(a % v[2], v[2])
         IN  (IF v[1] < 0 THEN <<"-">> ELSE <<>>) \o NatStr(a \div v[2]) \o
             <<".">> \o (IF f = <<>> THEN <<"0">> ELSE f)

\* Series.astype(str)
astype_str(cell) == IF cell.kind = "float" THEN FloatStr(cell.v) ELSE cell.v

Whitespace == {" "}

\* str.strip()
RECURSIVE strip(_)
strip(chars) ==
    IF chars = <<>> THEN chars
    ELSE IF chars[1] \in Whitespace THEN strip(Tail(chars))
    ELSE IF chars[Len(chars)] \in Whitespace
         THEN strip(SubSeq(chars, 1, Len(chars) - 1))
    ELSE chars

\* faulty variant: the decimal comma is left in place
replace_comma_none(chars) == chars

\* str.replace(",", ".", regex=False): every comma
replace_comma(chars) ==
    [i \in 1..Len(chars) |-> IF chars[i] = "," THEN "." ELSE chars[i]]

RECURSIVE DigitsVal(_)
DigitsVal(chars) ==
    IF chars = <<>> THEN 0
    ELSE 10 * DigitsVal(SubSeq(chars, 1, Len(chars) - 1)) + DigitVal[chars[Len(chars)]]

RECURSIVE Pow10(_)
Pow10(k) == IF k = 0 THEN 1 ELSE 10 * Pow10(k - 1)

\* pd.to_numeric(errors="coerce") of a stripped text: an optional sign, digits
\* with at most one point and at least one digit; "nan" and anything else is NaN
to_numeric(chars) ==
    LET signed == chars # <<>> /\ chars[1] \in {"-", "+"}
        body   == IF signed THEN Tail(chars) ELSE chars
        points == {i \in 1..Len(body) : body[i] = "."}
        p      == IF points = {} THEN Len(body) + 1 ELSE CHOOSE i \in points : TRUE
        ip     == SubSeq(body, 1, p - 1)
        fp     == SubSeq(body, p + 1, Len(body))
        wellformed ==
            /\ Cardinality(points) <= 1
            /\ \A i \in 1..Len(body) : i \in points \/ body[i] \in DOMAIN DigitVal
            /\ Len(ip) + Len(fp) >= 1
        mag    == Frac(DigitsVal(ip) * Pow10(Len(fp)) + DigitsVal(fp), Pow10(Len(fp)))
    IN  IF ~wellformed THEN NaN
        ELSE IF signed /\ chars[1] = "-" THEN <<-mag[1], mag[2]>>
        ELSE mag

\* a missing cell, as DataFrame.stack's dropna sees it
IsMissing(cell) == cell.kind = "float" /\ IsNaN(cell.v)

StationColumns(df) == SelectSeq(df.columns, LAMBDA c : c # DatetimeColumn)

\* the column labels ascending, as the legacy stack lists them
RECURSIVE SortColumns(_)
SortColumns(C) ==
    IF C = {} THEN <<>>
    ELSE LET m == CHOOSE x \in C : \A y \in C \ {x} :
                      LexLess(<<StrRank[x[1]], StrRank[x[2]]>>,
                              <<StrRank[y[1]], StrRank[y[2]]>>)
         IN  <<m>> \o SortColumns(C \ {m})

\* set_index(("datetime", "")).stack(["Miejscowosc", "Kod stacji"]).reset_index():
\* one row per (timestamp, station column), timestamps in frame order.  The
\* legacy stack (pandas < 3) sorts the labels and drops the missing cells; the
\* new one keeps the column order and every cell.
Stack(df, mode) ==
    LET sc  == StationColumns(df)
        cs  == IF mode = "legacy" THEN SortColumns(Range(sc)) ELSE sc
        nC  == Len(cs)
        all == [k \in 1..(Len(df.rows) * nC) |->
                   LET r == df.rows[((k - 1) \div nC) + 1]
                       c == cs[((k - 1) % nC) + 1]
                   IN  ("datetime" :> r[DatetimeColumn]) @@
                       ("Miejscowosc" :> c[1]) @@ ("Kod stacji" :> c[2]) @@
                       ("PM25" :> r[c])]
    IN  IF mode = "legacy"
        THEN SelectSeq(all, LAMBDA r : ~IsMissing(r["PM25"]))
        ELSE all

CleanValue(cell) == to_numeric(replace_comma(strip(astype_str(cell))))

\* faulty variant: rows without a number are dropped after the conversion
convert_df_dropna(df, mode) ==
    LET st == Stack(df, mode)
    IN  Frame(LongColumns,
              SelectSeq([i \in 1..Len(st) |->
                            [st[i] EXCEPT !["PM25"] = CleanValue(@)]],
                        LAMBDA r : ~IsNaN(r["PM25"])))

convert_df(df, mode) ==
    LET st == Stack(df, mode)
    IN  Frame(LongColumns,
              [i \in 1..Len(st) |-> [st[i] EXCEPT !["PM25"] = CleanValue(@)]])


(***************************************************************************)
(* groupby(keys)[col].mean(): one row per key combination that occurs,     *)
(* keys ascending, the mean of the group's values in row order.            *)
(***************************************************************************)
\* rowKeys[i] is the key of rows[i]
GroupValues(rows, rowKeys, k, col) ==
    LET idx == SelectSeq([i \in 1..Len(rows) |-> i], LAMBDA i : rowKeys[i] = k)
    IN  [j \in 1..Len(idx) |-> rows[idx[j]][col]]

(***************************************************************************)
(* stats.py                                                                *)
(***************************************************************************)
MonthlyColumns == <<"Rok", "Miesiac", "Miejscowosc", "Kod stacji", "Mean PM25">>
CityMonthlyColumns == <<"Rok", "Miesiac", "Miejscowosc", "Mean PM25">>
DailyColumns == <<"Rok", "Data", "Miejscowosc", "Kod stacji", "Daily mean PM25">>

\* pd.to_numeric(errors="coerce") of a float column: the floats themselves
to_numeric_float(v) == v

\* faulty variant: the day of the month taken for the month
MonthlyKey_day(r) ==
    <<dt_year(r["datetime"]), dt_date(r["datetime"])[3],
      r["Miejscowosc"], r["Kod stacji"]>>

MonthlyKey(r) ==
    <<dt_year(r["datetime"]), dt_month(r["datetime"]),
      r["Miejscowosc"], r["Kod stacji"]>>
MonthlyCode(k) == <<k[1], k[2], StrRank[k[3]], StrRank[k[4]]>>

calc_monthly_means(f) ==
    LET rk   == [i \in 1..Len(f.rows) |-> MonthlyKey(f.rows[i])]
        keys == SortByCode({[code |-> MonthlyCode(k), key |-> k] : k \in Range(rk)})
    IN  Frame(MonthlyColumns,
              [i \in 1..Len(keys) |->
                  ("Rok" :> keys[i][1]) @@ ("Miesiac" :> keys[i][2]) @@
                  ("Miejscowosc" :> keys[i][3]) @@ ("Kod stacji" :> keys[i][4]) @@
                  ("Mean PM25" :>
                      Mean(GroupValues(f.rows, rk, keys[i], "PM25")))])

CityKey(r) == <<r["Rok"], r["Miesiac"], r["Miejscowosc"]>>
CityCode(k) == <<k[1], k[2], StrRank[k[3]]>>

calc_monthly_city_means(mm) ==
    LET rows == [i \in 1..Len(mm.rows) |->
                    [mm.rows[i] EXCEPT !["Mean PM25"] = to_numeric_float(@)]]
        rk   == [i \in 1..Len(rows) |-> CityKey(rows[i])]
        keys == SortByCode({[code |-> CityCode(k), key |-> k] : k \in Range(rk)})
    IN  Frame(CityMonthlyColumns,
              [i \in 1..Len(keys) |->
                  ("Rok" :> keys[i][1]) @@ ("Miesiac" :> keys[i][2]) @@
                  ("Miejscowosc" :> keys[i][3]) @@
                  ("Mean PM25" :>
                      Mean(GroupValues(rows, rk, keys[i], "Mean PM25")))])

\* faulty variant: the year is taken an hour later than the date
DailyKey_shifted(r) ==
    <<dt_year([r["datetime"] EXCEPT !.sec = @ + 3600]), dt_date(r["datetime"]),
      r["Miejscowosc"], r["Kod stacji"]>>

\* faulty variant: the times are rounded to the hour before the day is taken
DailyKey_rounded(r) ==
    LET t == [r["datetime"] EXCEPT !.sec = ((@ + 1800) \div 3600) * 3600]
    IN  <<dt_year(t), dt_date(t), r["Miejscowosc"], r["Kod stacji"]>>

DailyKey(r) ==
    <<dt_year(r["datetime"]), dt_date(r["datetime"]),
      r["Miejscowosc"], r["Kod stacji"]>>
DailyCode(k) ==
    <<k[1], k[2][1], k[2][2], k[2][3], StrRank[k[3]], StrRank[k[4]]>>

calc_daily_means(f) ==
    LET rows == [i \in 1..Len(f.rows) |->
                    [f.rows[i] EXCEPT !["PM25"] = to_numeric_float(@)]]
        rk   == [i \in 1..Len(rows) |-> DailyKey(rows[i])]
        keys == SortByCode({[code |-> DailyCode(k), key |-> k] : k \in Range(rk)})
    IN  Frame(DailyColumns,
              [i \in 1..Len(keys) |->
                  ("Rok" :> keys[i][1]) @@ ("Data" :> keys[i][2]) @@
                  ("Miejscowosc" :> keys[i][3]) @@ ("Kod stacji" :> keys[i][4]) @@
                  ("Daily mean PM25" :>
                      Mean(GroupValues(rows, rk, keys[i], "PM25")))])

\* f"Liczba dni PM25 > {threshold}"
CountColumn(t) == "Liczba dni PM25 > " \o ToString(t)

\* faulty variant: the threshold itself counts as exceeded
Exceeds_ge(mean, t) == IF IsNaN(mean) THEN FALSE ELSE mean[1] >= t * mean[2]

\* faulty variant: the comparison turned round
Exceeds_below(mean, t) == IF IsNaN(mean) THEN FALSE ELSE mean[1] < t * mean[2]

Exceeds(mean, t) == GtInt(mean, t)

OverKey(r) == <<r["Rok"], r["Kod stacji"]>>
OverCode(k) == <<k[1], StrRank[k[2]]>>

\* Series.nunique() of a group's column
NUnique(s) == Cardinality(Range(s))

\* faulty variant: every (Rok, Kod stacji) pair is listed, with the days above counted
count_overnorm_days_zero(d, t) ==
    LET rk   == [i \in 1..Len(d.rows) |-> OverKey(d.rows[i])]
        keys == SortByCode({[code |-> OverCode(k), key |-> k] : k \in Range(rk)})
    IN  Frame(<<"Rok", "Kod stacji", CountColumn(t)>>,
              [i \in 1..Len(keys) |->
                  ("Rok" :> keys[i][1]) @@ ("Kod stacji" :> keys[i][2]) @@
                  (CountColumn(t) :>
                      Cardinality({d.rows[j]["Data"] : j \in
                          {j \in 1..Len(d.rows) :
                              /\ rk[j] = keys[i]
                              /\ Exceeds(d.rows[j]["Daily mean PM25"], t)}}))])

count_overnorm_days(d, t) ==
    LET over == SelectSeq(d.rows, LAMBDA r : Exceeds(r["Daily mean PM25"], t))
        rk   == [i \in 1..Len(over) |-> OverKey(over[i])]
        keys == SortByCode({[code |-> OverCode(k), key |-> k] : k \in Range(rk)})
    IN  Frame(<<"Rok", "Kod stacji", CountColumn(t)>>,
              [i \in 1..Len(keys) |->
                  ("Rok" :> keys[i][1]) @@ ("Kod stacji" :> keys[i][2]) @@
                  (CountColumn(t) :>
                      NUnique(GroupValues(over, rk, keys[i], "Data")))])

\* DataFrame.nlargest (sign 1) / nsmallest (sign -1) with keep="first":
\* repeatedly the first row, in frame order, holding the extreme value among
\* the rows not yet taken
RECURSIVE SelectN(_, _, _, _, _)
SelectN(rows, left, k, col, sign) ==
    IF k <= 0 \/ left = {} THEN <<>>
    ELSE LET best == CHOOSE i \in left : \A j \in left \ {i} :
                         \/ sign * rows[i][col] > sign * rows[j][col]
                         \/ rows[i][col] = rows[j][col] /\ i < j
         IN  <<rows[best]>> \o SelectN(rows, left \ {best}, k - 1, col, sign)

nlargest(rows, k, col) == SelectN(rows, 1..Len(rows), k, col, 1)
nsmallest(rows, k, col) == SelectN(rows, 1..Len(rows), k, col, -1)

\* faulty variant: the year filter dropped
YearRows_all(oc, y) == oc.rows

YearRows(oc, y) == SelectSeq(oc.rows, LAMBDA r : r["Rok"] = y)

\* faulty variant: a row already among the largest is not listed again among
\* the smallest
top_bottom_stations_distinct(oc, y, k) ==
    LET df  == YearRows(oc, y)
        col == oc.columns[Len(oc.columns)]
        top == nlargest(df, k, col)
    IN  Frame(oc.columns,
              top \o SelectSeq(nsmallest(df, k, col), LAMBDA r : r \notin Range(top)))

top_bottom_stations(oc, y, k) ==
    LET df  == YearRows(oc, y)
        col == oc.columns[Len(oc.columns)]
    IN  Frame(oc.columns, nlargest(df, k, col) \o nsmallest(df, k, col))

\* Series.str[:2] of the station codes in use
str2 ==
    ("DsJelGorOgin" :> "Ds") @@ ("DsWrocAlWisn" :> "Ds") @@
    ("DsWrocWybCon" :> "Ds") @@ ("KpBydPlPozna" :> "Kp")

\* df[c] = vals: the column is overwritten, or appended when new
SetColumn(df, c, vals) ==
    Frame(IF c \in Range(df.columns) THEN df.columns ELSE Append(df.columns, c),
          [i \in 1..Len(df.rows) |-> (c :> vals[i]) @@ df.rows[i]])

\* df.drop(c, axis=1)
drop(df, c) ==
    LET cols == SelectSeq(df.columns, LAMBDA x : x # c)
    IN  Frame(cols, [i \in 1..Len(df.rows) |-> [x \in Range(cols) |-> df.rows[i][x]]])

\* the three assignments wojew_over_treshold makes into the frame it was given
wojew_assign(long, wojew_dict) ==
    LET a == SetColumn(long, "date",
                 [i \in 1..Len(long.rows) |-> dt_date(long.rows[i]["datetime"])])
        b == SetColumn(a, "Wojewodztwo",
                 [i \in 1..Len(a.rows) |-> str2[a.rows[i]["Kod stacji"]]])
    IN  SetColumn(b, "Wojewodztwo",
            [i \in 1..Len(b.rows) |-> wojew_dict[b.rows[i]["Wojewodztwo"]]])

WojewDailyKey(r) == <<r["Wojewodztwo"], r["Kod stacji"], r["date"]>>
WojewDailyCode(k) == <<StrRank[k[1]], StrRank[k[2]], k[3][1], k[3][2], k[3][3]>>
WojewMeansKey(r) == <<r["date"], r["Wojewodztwo"]>>
WojewMeansCode(k) == <<k[1][1], k[1][2], k[1][3], StrRank[k[2]]>>

\* the mean of every station and date
wojew_daily(long) ==
    LET rk   == [i \in 1..Len(long.rows) |-> WojewDailyKey(long.rows[i])]
        keys == SortByCode({[code |-> WojewDailyCode(k), key |-> k] : k \in Range(rk)})
    IN  Frame(<<"Wojewodztwo", "Kod stacji", "date", "PM25">>,
              [i \in 1..Len(keys) |->
                  ("Wojewodztwo" :> keys[i][1]) @@ ("Kod stacji" :> keys[i][2]) @@
                  ("date" :> keys[i][3]) @@
                  ("PM25" :> Mean(GroupValues(long.rows, rk, keys[i], "PM25")))])

\* faulty variant: a mean equal to the treshold counts as exceeding it
ExceedsTreshold_ge(mean, t) == IF IsNaN(mean) THEN FALSE ELSE mean[1] >= t * mean[2]

\* wojew_means['PM25'] > treshold
ExceedsTreshold(mean, t) == GtInt(mean, t)

\* the mean of the station means of every date and voivodeship, and whether it
\* exceeds the treshold
wojew_means(d, treshold_) ==
    LET rk   == [i \in 1..Len(d.rows) |-> WojewMeansKey(d.rows[i])]
        keys == SortByCode({[code |-> WojewMeansCode(k), key |-> k] : k \in Range(rk)})
    IN  Frame(<<"date", "Wojewodztwo", "PM25", "exceeds_treshold">>,
              [i \in 1..Len(keys) |->
                  LET m == Mean(GroupValues(d.rows, rk, keys[i], "PM25"))
                  IN  ("date" :> keys[i][1]) @@ ("Wojewodztwo" :> keys[i][2]) @@
                      ("PM25" :> m) @@
                      ("exceeds_treshold" :> ExceedsTreshold(m, treshold_))])

\* groupby('Wojewodztwo')['exceeds_treshold'].sum()
wojew_sum(wm) ==
    LET ws == SortByCode({[code |-> <<StrRank[wm.rows[i]["Wojewodztwo"]]>>,
                           key |-> wm.rows[i]["Wojewodztwo"]] :
                             i \in 1..Len(wm.rows)})
    IN  Frame(<<"Wojewodztwo", "exceeds_treshold">>,
              [i \in 1..Len(ws) |->
                  ("Wojewodztwo" :> ws[i]) @@
                  ("exceeds_treshold" :>
                      Cardinality({j \in 1..Len(wm.rows) :
                          /\ wm.rows[j]["Wojewodztwo"] = ws[i]
                          /\ wm.rows[j]["exceeds_treshold"]}))])

\* Series.sort_values(ascending=False): the default sort is not stable, equal
\* values may come out in any order
sort_values_descending(f, col) ==
    {Frame(f.columns, [i \in 1..Len(f.rows) |-> f.rows[p[i]]]) :
        p \in {q \in [1..Len(f.rows) -> 1..Len(f.rows)] :
                  /\ \A i, j \in 1..Len(f.rows) : i # j => q[i] # q[j]
                  /\ \A i \in 1..(Len(f.rows) - 1) :
                        f.rows[q[i]][col] >= f.rows[q[i + 1]][col]}}

\* wojew_over_treshold(long, wojew_dict, treshold): the results it may return
wojew_over_treshold(long, wojew_dict, treshold_) ==
    LET assigned == wojew_assign(long, wojew_dict)
        dropped  == drop(assigned, "Miejscowosc")
    IN  sort_values_descending(
            wojew_sum(wojew_means(wojew_daily(dropped), treshold_)),
            "exceeds_treshold")

(***************************************************************************)
(* plots.py: heatmaps_means.  A figure is the sequence of its axes; an     *)
(* axes is [visible, heatmap], heatmap the sequence of what was drawn on   *)
(* it: [title, index, columns, cells].                                     *)
(***************************************************************************)
\* plt.subplots(6, 3)
GridRows == 6
GridCols == 3

\* Series.unique(): the values in order of first appearance
unique(s) ==
    LET idx == SelectSeq([i \in 1..Len(s) |-> i],
                         LAMBDA i : \A j \in 1..(i - 1) : s[j] # s[i])
    IN  [k \in 1..Len(idx) |-> s[idx[k]]]

\* data.pivot(index="Rok", columns="Miesiac", values="Mean PM25").reindex(years)
pivot_reindex(data, years) ==
    LET months == SortByCode({[code |-> <<data[i]["Miesiac"]>>,
                               key |-> data[i]["Miesiac"]] : i \in 1..Len(data)})
    IN  [index   |-> years,
         columns |-> months,
         cells   |-> [y \in Range(years), m \in Range(months) |->
                         IF \E i \in 1..Len(data) :
                               data[i]["Rok"] = y /\ data[i]["Miesiac"] = m
                         THEN data[CHOOSE i \in 1..Len(data) :
                                      data[i]["Rok"] = y /\ data[i]["Miesiac"] = m]
                                  ["Mean PM25"]
                         ELSE NaN]]

\* heatmaps_means(city_monthly, years): zip(axes, cities) stops at the shorter
\* of the two; the axes from len(cities) on are switched off
heatmaps_means(cm, years) ==
    LET df     == SelectSeq(cm.rows, LAMBDA r : r["Rok"] \in Range(years))
        cities == unique(Col(df, "Miejscowosc"))
    IN  [axes |->
            [k \in 1..(GridRows * GridCols) |->
                IF k <= Len(cities)
                THEN [visible |-> TRUE,
                      heatmap |->
                          <<[title |-> cities[k]] @@
                            pivot_reindex(
                                SelectSeq(df, LAMBDA r : r["Miejscowosc"] = cities[k]),
                                years)>>]
                ELSE [visible |-> FALSE, heatmap |-> <<>>]]]

(***************************************************************************)
(* Inputs.  A frame given directly is a sequence of rows of a small        *)
(* universe.  Long and daily frames are listed in universe order only:     *)
(* groupby sorts by key, so its result does not depend on the row order.   *)
(***************************************************************************)
Stations ==
    <<[city |-> "Wroclaw", code |-> "DsWrocAlWisn"],
      [city |-> "Wroclaw", code |-> "DsWrocWybCon"],
      [city |-> "Jelenia Gora", code |-> "DsJelGorOgin"]>>

\* 2014-12-31 23:00:00, 2015-01-01 01:00:00, 2015-01-02 01:00:00
LongTimes == <<Ts(1420066800), Ts(1420074000), Ts(1420160400)>>
LongValues == <<Num(10), Num(25), NaN>>

LongRow(ts, st, v) ==
    ("datetime" :> ts) @@ ("Miejscowosc" :> st.city) @@
    ("Kod stacji" :> st.code) @@ ("PM25" :> v)

\* the rows ts x st x v, as a sequence
Product(times, sts, vals) ==
    LET nS == Len(sts)
        nV == Len(vals)
    IN  [i \in 1..(Len(times) * nS * nV) |->
            LongRow(times[((i - 1) \div (nS * nV)) + 1],
                    sts[(((i - 1) \div nV) % nS) + 1],
                    vals[((i - 1) % nV) + 1])]

\* the first Wroclaw station at every time with every value, the second one
\* with 25 or no value, the Jelenia Gora station on 2015-01-01 with 10
LongUniverse ==
    Product(LongTimes, <<Stations[1]>>, LongValues) \o
    Product(LongTimes, <<Stations[2]>>, <<Num(25), NaN>>) \o
    Product(<<LongTimes[2]>>, <<Stations[3]>>, <<Num(10)>>)

\* the sequences of at most max rows of universe U, in universe order
SortedTables(U, max) ==
    UNION {{[j \in 1..k |-> U[s[j]]] :
               s \in {t \in [1..k -> 1..Len(U)] :
                         \A j \in 1..(k - 1) : t[j] <= t[j + 1]}} :
           k \in 0..max}

DailyDates == <<<<2014, 12, 31>>, <<2015, 1, 1>>, <<2015, 1, 2>>>>
\* daily means around the thresholds: 10, 15, 15.5
DailyValues == <<Num(10), Num(15), Frac(31, 2)>>
DailyStations == <<Stations[1], Stations[3]>>

DailyRow(date, st, v) ==
    ("Rok" :> date[1]) @@ ("Data" :> date) @@ ("Miejscowosc" :> st.city) @@
    ("Kod stacji" :> st.code) @@ ("Daily mean PM25" :> v)

DailyUniverse ==
    LET nS == Len(DailyStations)
        nV == Len(DailyValues)
    IN  [i \in 1..(Len(DailyDates) * nS * nV) |->
            DailyRow(DailyDates[((i - 1) \div (nS * nV)) + 1],
                     DailyStations[(((i - 1) \div nV) % nS) + 1],
                     DailyValues[((i - 1) % nV) + 1])]

Thresholds == {10, 15}

CountRow(y, code, c) ==
    ("Rok" :> y) @@ ("Kod stacji" :> code) @@ (CountColumn(15) :> c)

CountUniverse ==
    <<CountRow(2015, "DsJelGorOgin", 100), CountRow(2015, "DsWrocAlWisn", 80),
      CountRow(2015, "DsWrocWybCon", 10), CountRow(2015, "KpBydPlPozna", 10),
      CountRow(2018, "DsJelGorOgin", 999), CountRow(2018, "DsWrocAlWisn", 5)>>

\* the sequences of at most max distinct rows of universe U, in any order
Tables(U, max) ==
    UNION {{[j \in 1..k |-> U[s[j]]] :
               s \in {t \in [1..k -> 1..Len(U)] :
                         \A i, j \in 1..k : i # j => t[i] # t[j]}} :
           k \in 0..max}

Years == {2015, 2018}

\* 2015-01-01 01:00:00, 2015-01-01 02:00:00, 2015-01-02 00:00:00, 2015-02-01 05:00:00
WideTimes == <<Ts(1420074000), Ts(1420077600), Ts(1420156800), Ts(1422766800)>>
WideStations == <<<<"Wroclaw", "DsWrocWybCon">>, <<"Jelenia Gora", "DsJelGorOgin">>>>

\* 78.5, a missing value, " 151,112 ", "abc", "1,2,3"
WideCells ==
    <<F(Frac(157, 2)), F(NaN),
      S(<<" ", "1", "5", "1", ",", "1", "1", "2", " ">>),
      S(<<"a", "b", "c">>),
      S(<<"1", ",", "2", ",", "3">>)>>

\* the voivodeship names by the two-letter code, as given to wojew_over_treshold
wojew_dict == ("Ds" :> "dolnoslaskie") @@ ("Kp" :> "kujawsko-pomorskie")
Tresholds == {10, 15}

WojewStations ==
    <<Stations[1], Stations[3], [city |-> "Bydgoszcz", code |-> "KpBydPlPozna"]>>

\* on 2015-01-01 and 2015-01-02: the Wroclaw station with every value, the
\* Jelenia Gora station with 25 or no value, the Bydgoszcz station with 10 or 25
WojewUniverse ==
    Product(SubSeq(LongTimes, 2, 3), <<WojewStations[1]>>, LongValues) \o
    Product(SubSeq(LongTimes, 2, 3), <<WojewStations[2]>>, <<Num(25), NaN>>) \o
    Product(SubSeq(LongTimes, 2, 3), <<WojewStations[3]>>, <<Num(10), Num(25)>>)

\* the localities of a frame given to heatmaps_means
Locality(i) == "M" \o ToString(i)

\* which years a locality has a mean for: every locality 2015, every locality
\* 2018, every locality both, or the odd ones 2015 and the even ones 2018
PlotPatterns == {"2015", "2018", "both", "alternate"}
HasYear(pattern, i, y) ==
    CASE pattern = "2015" -> y = 2015
      [] pattern = "2018" -> y = 2018
      [] pattern = "both" -> TRUE
      [] OTHER            -> (y = 2015) = (i % 2 = 1)

\* the January means of the first nC localities, in the order of
\* calc_monthly_city_means (Rok, Miesiac, Miejscowosc)
CityMonthlyOf(nC, pattern) ==
    LET pairs == SelectSeq(
                     [k \in 1..(2 * nC) |->
                         [y |-> IF k <= nC THEN 2015 ELSE 2018,
                          i |-> ((k - 1) % nC) + 1]],
                     LAMBDA q : HasYear(pattern, q.i, q.y))
    IN  Frame(CityMonthlyColumns,
              [k \in 1..Len(pairs) |->
                  ("Rok" :> pairs[k].y) @@ ("Miesiac" :> 1) @@
                  ("Miejscowosc" :> Locality(pairs[k].i)) @@
                  ("Mean PM25" :> Num(10 + pairs[k].i))])

PlotYears == {<<2015>>, <<2018>>, <<2015, 2018>>, <<2018, 2015>>}

\* the cells a row may hold under the stations sts: any of WideCells under the
\* first station, one of the first three under the others
RowCells(sts) ==
    {p \in [Range(sts) -> 1..Len(WideCells)] :
        \A c \in Range(sts) : c # WideStations[1] => p[c] <= 3}

\* the wide frames of the first nT <= maxT timestamps and the first nC stations
WideFrames(maxT) ==
    UNION {
        LET sts  == SubSeq(WideStations, 1, nC)
            cols == <<DatetimeColumn>> \o sts
        IN  {Frame(cols,
                   [i \in 1..nT |->
                       [c \in Range(cols) |->
                           IF c = DatetimeColumn THEN WideTimes[i]
                           ELSE WideCells[pick[i][c]]]]) :
                pick \in [1..nT -> RowCells(sts)]} :
        nT \in 1..Min(maxT, Len(WideTimes)), nC \in 1..Len(WideStations)}

(***************************************************************************)
(* The script: each call takes the caller's frames and binds its result.   *)
(***************************************************************************)
\* nothing reported yet
NoReports ==
    /\ treshold = 0 /\ wojew_counts = None
    /\ recount = None /\ plot = None

InitLong ==
    /\ pc = "calc_monthly_means"
    /\ pandas_stack = "future"
    /\ df_pm25 = None
    /\ formated \in {Frame(LongColumns, r) : r \in SortedTables(LongUniverse, MaxRows)}
    /\ monthly_means = None /\ city_monthly = None /\ daily = None
    /\ threshold = 0 /\ over_counts = None
    /\ year = 0 /\ n = 0 /\ top_bottom = None
    /\ make = None /\ calls = <<>> /\ csv = <<>>
    /\ NoReports

InitDaily ==
    /\ pc = "count_overnorm_days"
    /\ pandas_stack = "future"
    /\ df_pm25 = None /\ formated = None
    /\ monthly_means = None /\ city_monthly = None
    /\ daily \in {Frame(DailyColumns, r) : r \in SortedTables(DailyUniverse, MaxDailyRows)}
    /\ threshold = 0 /\ over_counts = None
    /\ year = 0 /\ n = 0 /\ top_bottom = None
    /\ make = None /\ calls = <<>> /\ csv = <<>>
    /\ NoReports

InitCounts ==
    /\ pc = "top_bottom_stations"
    /\ pandas_stack = "future"
    /\ df_pm25 = None /\ formated = None
    /\ monthly_means = None /\ city_monthly = None /\ daily = None
    /\ threshold = 15
    /\ over_counts \in {Frame(<<"Rok", "Kod stacji", CountColumn(15)>>, r) :
                           r \in Tables(CountUniverse, MaxCountRows)}
    /\ year = 0 /\ n = 0 /\ top_bottom = None
    /\ make = None /\ calls = <<>> /\ csv = <<>>
    /\ NoReports

InitWide ==
    /\ pc = "convert_df"
    /\ df_pm25 \in WideFrames(MaxTimes)
    /\ pandas_stack \in {"legacy", "future"}
    /\ formated = None
    /\ monthly_means = None /\ city_monthly = None /\ daily = None
    /\ threshold = 0 /\ over_counts = None
    /\ year = 0 /\ n = 0 /\ top_bottom = None
    /\ make = None /\ calls = <<>> /\ csv = <<>>
    /\ NoReports

ConvertDf ==
    /\ pc = "convert_df"
    /\ formated' = convert_df(df_pm25, pandas_stack)
    /\ pc' = "calc_monthly_means"
    /\ UNCHANGED <<pandas_stack, df_pm25, monthly_means, city_monthly, daily,
                   threshold, over_counts, year, n, top_bottom>>
    /\ UNCHANGED get_vars
    /\ UNCHANGED report_vars

CalcMonthlyMeans ==
    /\ pc = "calc_monthly_means"
    /\ monthly_means' = calc_monthly_means(formated)
    /\ pc' = "calc_monthly_city_means"
    /\ UNCHANGED <<pandas_stack, df_pm25, formated, city_monthly, daily,
                   threshold, over_counts, year, n, top_bottom>>
    /\ UNCHANGED get_vars
    /\ UNCHANGED report_vars

CalcMonthlyCityMeans ==
    /\ pc = "calc_monthly_city_means"
    /\ city_monthly' = calc_monthly_city_means(monthly_means)
    /\ pc' = "calc_daily_means"
    /\ UNCHANGED <<pandas_stack, df_pm25, formated, monthly_means, daily,
                   threshold, over_counts, year, n, top_bottom>>
    /\ UNCHANGED get_vars
    /\ UNCHANGED report_vars

CalcDailyMeans ==
    /\ pc = "calc_daily_means"
    /\ daily' = calc_daily_means(formated)
    /\ pc' = "count_overnorm_days"
    /\ UNCHANGED <<pandas_stack, df_pm25, formated, monthly_means, city_monthly,
                   threshold, over_counts, year, n, top_bottom>>
    /\ UNCHANGED get_vars
    /\ UNCHANGED report_vars

CountOvernormDays ==
    /\ pc = "count_overnorm_days"
    /\ \E t \in Thresholds :
          /\ threshold' = t
          /\ over_counts' = count_overnorm_days(daily, t)
    /\ pc' = "top_bottom_stations"
    /\ UNCHANGED <<pandas_stack, df_pm25, formated, monthly_means, city_monthly,
                   daily, year, n, top_bottom>>
    /\ UNCHANGED get_vars
    /\ UNCHANGED report_vars

TopBottomStations ==
    /\ pc = "top_bottom_stations"
    /\ \E y \in Years, k \in 1..MaxN :
          /\ year' = y
          /\ n' = k
          /\ top_bottom' = top_bottom_stations(over_counts, y, k)
    /\ pc' = "done"
    /\ UNCHANGED <<pandas_stack, df_pm25, formated, monthly_means, city_monthly,
                   daily, threshold, over_counts>>
    /\ UNCHANGED get_vars
    /\ UNCHANGED report_vars

InitWojew ==
    /\ pc = "wojew_over_treshold"
    /\ pandas_stack = "future"
    /\ df_pm25 = None
    /\ formated \in {Frame(LongColumns, r) : r \in SortedTables(WojewUniverse, MaxWojewRows)}
    /\ monthly_means = None /\ city_monthly = None /\ daily = None
    /\ threshold = 0 /\ over_counts = None
    /\ year = 0 /\ n = 0 /\ top_bottom = None
    /\ make = None /\ calls = <<>> /\ csv = <<>>
    /\ NoReports

\* the caller's frame is the one the function assigns into
WojewOverTreshold ==
    /\ pc = "wojew_over_treshold"
    /\ \E t \in Tresholds :
          /\ treshold' = t
          /\ wojew_counts' \in wojew_over_treshold(formated, wojew_dict, t)
    /\ formated' = wojew_assign(formated, wojew_dict)
    /\ pc' = "done"
    /\ UNCHANGED <<pandas_stack, df_pm25, monthly_means, city_monthly, daily,
                   threshold, over_counts, year, n, top_bottom>>
    /\ UNCHANGED <<recount, plot>>
    /\ UNCHANGED get_vars

InitPlot ==
    /\ pc = "heatmaps_means"
    /\ pandas_stack = "future"
    /\ df_pm25 = None /\ formated = None
    /\ monthly_means = None
    /\ city_monthly \in {CityMonthlyOf(nC, pt) : nC \in 0..MaxCities, pt \in PlotPatterns}
    /\ daily = None
    /\ threshold = 0 /\ over_counts = None
    /\ year = 0 /\ n = 0 /\ top_bottom = None
    /\ make = None /\ calls = <<>> /\ csv = <<>>
    /\ NoReports

HeatmapsMeans ==
    /\ pc = "heatmaps_means"
    /\ \E ys \in PlotYears :
          plot' = [years |-> ys, fig |-> heatmaps_means(city_monthly, ys)]
    /\ pc' = "done"
    /\ UNCHANGED stats_vars
    /\ UNCHANGED <<treshold, wojew_counts, recount>>
    /\ UNCHANGED get_vars

\* count_overnorm_days called once more on the same daily frame
CountOvernormDaysAgain ==
    /\ pc = "top_bottom_stations"
    /\ daily # None
    /\ \E t \in Thresholds :
          recount' = [threshold |-> t, over_counts |-> count_overnorm_days(daily, t)]
    /\ pc' = "done"
    /\ UNCHANGED stats_vars
    /\ UNCHANGED <<treshold, wojew_counts, plot>>
    /\ UNCHANGED get_vars

\* the statistics computed from a long frame
Next ==
    \/ CalcMonthlyMeans
    \/ CalcMonthlyCityMeans
    \/ CalcDailyMeans
    \/ CountOvernormDays
    \/ TopBottomStations

Init == InitLong
Spec == Init /\ [][Next]_vars

\* exceedance counts and rankings of frames given directly
NextCounts == CountOvernormDays \/ TopBottomStations
SpecCounts == (InitDaily \/ InitCounts) /\ [][NextCounts]_vars

\* the exceedance days of the voivodeships
NextWojew == WojewOverTreshold
SpecWojew == InitWojew /\ [][NextWojew]_vars

\* the heatmaps of a frame of city means
NextPlot == HeatmapsMeans
SpecPlot == InitPlot /\ [][NextPlot]_vars

\* every function of stats.py: the chain from a wide frame, and the
\* voivodeship counts of a long frame
NextStats ==
    \/ ConvertDf
    \/ CalcMonthlyMeans
    \/ CalcMonthlyCityMeans
    \/ CalcDailyMeans
    \/ CountOvernormDays
    \/ TopBottomStations
    \/ WojewOverTreshold
SpecStats == (InitWide \/ InitWojew) /\ [][NextStats]_vars

\* two exceedance counts of one daily frame
NextRecount == CountOvernormDays \/ CountOvernormDaysAgain
SpecRecount == InitDaily /\ [][NextRecount]_vars

\* the reshaping of a wide frame
NextConvert == ConvertDf
SpecConvert == InitWide /\ [][NextConvert]_vars

(***************************************************************************)
(* get_data: the cleaning functions and make_pm25_data, as its tests       *)
(* describe them.  A raw archive frame has the integer columns 0, 1, ...,  *)
(* header rows of texts and data rows of a written time and float cells.   *)
(***************************************************************************)
\* day number, counted from 1970-01-01, of a civil date
DaysFromCivil(y, m, d) ==
    LET yy  == IF m <= 2 THEN y - 1 ELSE y
        era == yy \div 400
        yoe == yy - era * 400
        doy == (153 * (IF m > 2 THEN m - 3 ELSE m + 9) + 2) \div 5 + d - 1
        doe == yoe * 365 + yoe \div 4 - yoe \div 100 + doy
    IN  era * 146097 + doe - 719468

\* a written time "y-m-d H:M:S.ms"
Written(y, m, d, H, M, sec, ms) ==
    [y |-> y, m |-> m, d |-> d, H |-> H, M |-> M, S |-> sec, ms |-> ms]

\* pd.to_datetime of a written time
to_datetime(w) ==
    [sec |-> DaysFromCivil(w.y, w.m, w.d) * SecondsPerDay
                 + w.H * 3600 + w.M * 60 + w.S,
     ms  |-> w.ms]

\* clean_pm25(df, header_row, drop_rows): the header row names the columns, the
\* first of them datetime; the listed rows are dropped; the times are parsed
clean_pm25(df, header_row, drop_rows) ==
    LET names == [k \in 1..Len(df.columns) |->
                     IF k = 1 THEN "datetime"
                     ELSE df.rows[header_row + 1][df.columns[k]]]
        keep  == SelectSeq([i \in 1..Len(df.rows) |-> i],
                           LAMBDA i : (i - 1) \notin Range(drop_rows))
    IN  Frame(names,
              [j \in 1..Len(keep) |->
                  [c \in Range(names) |->
                      LET k == CHOOSE k \in 1..Len(names) : names[k] = c
                      IN  IF c = "datetime"
                          THEN to_datetime(df.rows[keep[j]][df.columns[k]])
                          ELSE df.rows[keep[j]][df.columns[k]]]])

\* pd.concat of the yearly frames: the columns in order of first appearance,
\* the rows one frame after the other, cells of absent columns missing
RECURSIVE ConcatColumns(_)
ConcatColumns(fs) ==
    IF fs = <<>> THEN <<>>
    ELSE LET rest == ConcatColumns(SubSeq(fs, 1, Len(fs) - 1))
         IN  rest \o SelectSeq(fs[Len(fs)].columns, LAMBDA c : c \notin Range(rest))

RECURSIVE ConcatRows(_, _)
ConcatRows(fs, cols) ==
    IF fs = <<>> THEN <<>>
    ELSE [i \in 1..Len(fs[1].rows) |->
             [c \in Range(cols) |->
                 IF c \in Range(fs[1].columns) THEN fs[1].rows[i][c] ELSE F(NaN)]]
         \o ConcatRows(Tail(fs), cols)

concat(fs) == Frame(ConcatColumns(fs), ConcatRows(fs, ConcatColumns(fs)))

\* faulty variant: a whole day is taken off
midnight_day(df) ==
    Frame(df.columns,
          [i \in 1..Len(df.rows) |->
              [df.rows[i] EXCEPT !["datetime"] =
                  IF @.sec % SecondsPerDay = 0
                  THEN [@ EXCEPT !.sec = @ - SecondsPerDay] ELSE @]])

\* midnight(df): a time at 00:00:00 is moved back by one second
midnight(df) ==
    Frame(df.columns,
          [i \in 1..Len(df.rows) |->
              [df.rows[i] EXCEPT !["datetime"] =
                  IF @.sec % SecondsPerDay = 0
                  THEN [@ EXCEPT !.sec = @ - 1] ELSE @]])

\* the codes of an old-code field: the field is a tuple of tokens, codes
\* separated by "," and " " tokens; a missing field has none
OldCodes(field) == {field[i] : i \in {i \in 1..Len(field) : field[i] \notin {",", " "}}}

\* faulty variant: only the first code of an old-code field is looked at
NewCode_first(c, meta) ==
    IF \E i \in 1..Len(meta.rows) :
          /\ meta.rows[i]["Stary Kod stacji"] # <<>>
          /\ c = meta.rows[i]["Stary Kod stacji"][1]
    THEN meta.rows[CHOOSE i \in 1..Len(meta.rows) :
                      /\ meta.rows[i]["Stary Kod stacji"] # <<>>
                      /\ c = meta.rows[i]["Stary Kod stacji"][1]]["Kod stacji"]
    ELSE c

\* the current code of a column name, by the metadata
NewCode(c, meta) ==
    IF \E i \in 1..Len(meta.rows) : c \in OldCodes(meta.rows[i]["Stary Kod stacji"])
    THEN meta.rows[CHOOSE i \in 1..Len(meta.rows) :
                      c \in OldCodes(meta.rows[i]["Stary Kod stacji"])]["Kod stacji"]
    ELSE c

\* update_stations(df, meta): old station codes are renamed to the current ones
update_stations(df, meta) ==
    LET names == [k \in 1..Len(df.columns) |-> NewCode(df.columns[k], meta)]
    IN  Frame(names,
              [i \in 1..Len(df.rows) |->
                  [c \in Range(names) |->
                      df.rows[i][df.columns[CHOOSE k \in 1..Len(names) :
                                                names[k] = c]]]])

\* the Miejscowosc of a station code, by the metadata
CityOf(c, meta) ==
    meta.rows[CHOOSE i \in 1..Len(meta.rows) :
                 meta.rows[i]["Kod stacji"] = c]["Miejscowosc"]

\* add_city(df, meta): the columns become (Miejscowosc, Kod stacji) pairs
add_city(df, meta) ==
    LET names == [k \in 1..Len(df.columns) |->
                     IF df.columns[k] = "datetime" THEN DatetimeColumn
                     ELSE <<CityOf(df.columns[k], meta), df.columns[k]>>]
    IN  Frame(names,
              [i \in 1..Len(df.rows) |->
                  [c \in Range(names) |->
                      df.rows[i][IF c = DatetimeColumn THEN "datetime" ELSE c[2]]]])

\* the configuration given to make_pm25_data
gios_url_ids == (2015 :> "236") @@ (2018 :> "603")
gios_meta_id == "622"
gios_pm25_file == (2015 :> "2015_PM25_1g.xlsx") @@ (2018 :> "2018_PM25_1g.xlsx")
clean_info ==
    (2015 :> [header_row |-> 0, drop_rows |-> <<0, 1, 2>>]) @@
    (2018 :> [header_row |-> 1, drop_rows |-> <<0, 1, 2, 3>>])

YearLists == {<<2015>>, <<2015, 2018>>, <<2018, 2015>>}
OutFiles == {"PM25_test.csv", "PM25.csv"}

RawColumns == <<0, 1, 2>>
RawRow(a, b, c) == (0 :> a) @@ (1 :> b) @@ (2 :> c)

HeaderRows ==
    <<RawRow("Kod stacji", "DsJelGorOgin", "DsWrocAlWisn"),
      RawRow("Wskaznik", "PM2.5", "PM2.5"),
      RawRow("Czas usredniania", "1g", "1g")>>

\* 2015-01-01 00:00:00.000, 2015-01-01 23:00:00.105, 2015-01-02 00:00:00.110,
\* 2015-01-02 01:00:00.115, 2016-03-01 00:00:00.000
RawTimes ==
    <<Written(2015, 1, 1, 0, 0, 0, 0), Written(2015, 1, 1, 23, 0, 0, 105),
      Written(2015, 1, 2, 0, 0, 0, 110), Written(2015, 1, 2, 1, 0, 0, 115),
      Written(2016, 3, 1, 0, 0, 0, 0)>>

RawData ==
    {RawRow(RawTimes[t], F(v), F(Num(78))) :
        t \in 1..Len(RawTimes), v \in {Frac(151112, 1000), NaN}}

\* what the archive may hold for a year: for 2015 any frame of the three header
\* rows and at most MaxRawRows data rows, for 2018 one frame with a title row
Archive(y) ==
    IF y = 2015
    THEN {Frame(RawColumns, HeaderRows \o d) :
             d \in UNION {[1..k -> RawData] : k \in 1..MaxRawRows}}
    ELSE {Frame(RawColumns,
                <<RawRow("PM2.5", "", "")>> \o HeaderRows \o
                <<RawRow(Written(2018, 1, 1, 0, 0, 0, 0), F(Num(10)), F(Num(20)))>>)}

MetaColumns == <<"Kod stacji", "Miejscowosc", "Stary Kod stacji">>
MetaRow(code, city, old) ==
    ("Kod stacji" :> code) @@ ("Miejscowosc" :> city) @@ ("Stary Kod stacji" :> old)

\* the metadata the server may hold: without old codes, or with DsWrocAlWisn the
\* old code of DsWrocAlWisnNew
Metas ==
    {Frame(MetaColumns,
           <<MetaRow("DsJelGorOgin", "Jelenia Gora", <<>>),
             MetaRow("DsWrocAlWisn", "Wroclaw", <<>>)>>),
     Frame(MetaColumns,
           <<MetaRow("DsJelGorOgin", "Jelenia Gora", <<>>),
             MetaRow("DsWrocAlWisnNew", "Wroclaw",
                     <<"DsWrocAlWisnOld", ",", " ", "DsWrocAlWisn">>)>>)}

\* faulty variant: midnight writes the moved times into the frame it was given
\* and returns that frame
Effect_inplace(fn, args) ==
    IF fn = "midnight" THEN [after |-> midnight(args[1]), alias |-> TRUE]
    ELSE [after |-> args[1], alias |-> FALSE]

\* what a call leaves of its first argument: after is the argument as the
\* caller sees it once the call has returned, alias tells whether the result
\* is the very object that was passed in
Effect(fn, args) == [after |-> args[1], alias |-> FALSE]

\* a call as logged: the arguments as passed, the result, and the effect on
\* the first argument
Call(fn, args, ret) ==
    [fn |-> fn, args |-> args, ret |-> ret,
     after |-> Effect(fn, args).after, alias |-> Effect(fn, args).alias]

InitGet ==
    /\ pc = "download_gios_archive"
    /\ pandas_stack = "future"
    /\ df_pm25 = None /\ formated = None
    /\ monthly_means = None /\ city_monthly = None /\ daily = None
    /\ threshold = 0 /\ over_counts = None
    /\ year = 0 /\ n = 0 /\ top_bottom = None
    /\ make \in {[years |-> ys, outfile |-> f, i |-> 1, raw |-> None,
                  dfs |-> <<>>, df |-> None, meta |-> None, ret |-> <<>>] :
                    ys \in YearLists, f \in OutFiles}
    /\ calls = <<>>
    /\ csv = <<>>
    /\ NoReports

DownloadGiosArchive ==
    /\ pc = "download_gios_archive"
    /\ LET y == make.years[make.i]
       IN  \E raw \in Archive(y) :
              /\ make' = [make EXCEPT !.raw = raw]
              /\ calls' = Append(calls,
                     Call("download_gios_archive",
                          <<y, gios_url_ids[y], gios_pm25_file[y]>>, raw))
    /\ pc' = "clean_pm25"
    /\ UNCHANGED <<csv, stats_vars>>
    /\ UNCHANGED report_vars

CleanPm25 ==
    /\ pc = "clean_pm25"
    /\ LET y  == make.years[make.i]
           df == clean_pm25(make.raw, clean_info[y].header_row,
                            clean_info[y].drop_rows)
       IN  /\ make' = [make EXCEPT !.dfs = Append(@, df), !.i = @ + 1]
           /\ calls' = Append(calls,
                  Call("clean_pm25", <<make.raw, clean_info[y]>>, df))
    /\ pc' = IF make.i < Len(make.years) THEN "download_gios_archive"
             ELSE "download_gios_meta"
    /\ UNCHANGED <<csv, stats_vars>>
    /\ UNCHANGED report_vars

DownloadGiosMeta ==
    /\ pc = "download_gios_meta"
    /\ \E m \in Metas :
          /\ make' = [make EXCEPT !.meta = m, !.df = concat(make.dfs)]
          /\ calls' = Append(calls, Call("download_gios_meta", <<gios_meta_id>>, m))
    /\ pc' = "midnight"
    /\ UNCHANGED <<csv, stats_vars>>
    /\ UNCHANGED report_vars

Midnight ==
    /\ pc = "midnight"
    /\ make' = [make EXCEPT !.df = midnight(make.df)]
    /\ calls' = Append(calls, Call("midnight", <<make.df>>, midnight(make.df)))
    /\ pc' = "update_stations"
    /\ UNCHANGED <<csv, stats_vars>>
    /\ UNCHANGED report_vars

UpdateStations ==
    /\ pc = "update_stations"
    /\ make' = [make EXCEPT !.df = update_stations(make.df, make.meta)]
    /\ calls' = Append(calls, Call("update_stations", <<make.df, make.meta>>,
                                   update_stations(make.df, make.meta)))
    /\ pc' = "add_city"
    /\ UNCHANGED <<csv, stats_vars>>
    /\ UNCHANGED report_vars

AddCity ==
    /\ pc = "add_city"
    /\ make' = [make EXCEPT !.df = add_city(make.df, make.meta)]
    /\ calls' = Append(calls, Call("add_city", <<make.df, make.meta>>,
                                   add_city(make.df, make.meta)))
    /\ pc' = "to_csv"
    /\ UNCHANGED <<csv, stats_vars>>
    /\ UNCHANGED report_vars

\* faulty variant: the file name is fixed instead of taken from the argument
ToCsv_fixed_name ==
    /\ pc = "to_csv"
    /\ csv' = Append(csv, [path |-> "PM25.csv", frame |-> make.df])
    /\ calls' = Append(calls, Call("to_csv", <<make.df, "PM25.csv">>, <<>>))
    /\ make' = [make EXCEPT !.ret = <<make.df, make.meta>>]
    /\ pc' = "done"
    /\ UNCHANGED stats_vars
    /\ UNCHANGED report_vars

\* df.to_csv(outfile), and the return of (df, meta)
ToCsv ==
    /\ pc = "to_csv"
    /\ csv' = Append(csv, [path |-> make.outfile, frame |-> make.df])
    /\ calls' = Append(calls, Call("to_csv", <<make.df, make.outfile>>, <<>>))
    /\ make' = [make EXCEPT !.ret = <<make.df, make.meta>>]
    /\ pc' = "done"
    /\ UNCHANGED stats_vars
    /\ UNCHANGED report_vars

\* make_pm25_data
NextGet ==
    \/ DownloadGiosArchive
    \/ CleanPm25
    \/ DownloadGiosMeta
    \/ Midnight
    \/ UpdateStations
    \/ AddCity
    \/ ToCsv

SpecGet == InitGet /\ [][NextGet]_vars

\* the frame make_pm25_data returned is given to convert_df
PassToStats ==
    /\ pc = "done"
    /\ make # None
    /\ df_pm25 = None
    /\ df_pm25' = make.ret[1]
    /\ pc' = "convert_df"
    /\ UNCHANGED <<pandas_stack, formated, monthly_means, city_monthly, daily,
                   threshold, over_counts, year, n, top_bottom>>
    /\ UNCHANGED get_vars
    /\ UNCHANGED report_vars

\* make_pm25_data and the statistics of the frame it returns
NextPipeline ==
    \/ DownloadGiosArchive
    \/ CleanPm25
    \/ DownloadGiosMeta
    \/ Midnight
    \/ UpdateStations
    \/ AddCity
    \/ ToCsv
    \/ PassToStats
    \/ ConvertDf
    \/ CalcMonthlyMeans
    \/ CalcMonthlyCityMeans
    \/ CalcDailyMeans

SpecPipeline == InitGet /\ [][NextPipeline]_vars


(***************************************************************************)
(* Properties.                                                             *)
(***************************************************************************)
\* the calendar date of the timestamps in use, second by second
CalendarDate ==
    (1420066800 :> <<2014, 12, 31>>) @@ (1420074000 :> <<2015, 1, 1>>) @@
    (1420160400 :> <<2015, 1, 2>>)

Idx(f) == 1..Len(f.rows)

RECURSIVE SumOver(_, _, _)
SumOver(rows, col, I) ==
    IF I = {} THEN Num(0)
    ELSE LET i == CHOOSE j \in I : TRUE
         IN  RAdd(rows[i][col], SumOver(rows, col, I \ {i}))

\* m is the arithmetic mean of column col over the rows I that hold a value
\* (NaN when none does)
IsMeanOf(m, rows, col, I) ==
    LET J == {i \in I : ~IsNaN(rows[i][col])}
    IN  IF J = {} THEN IsNaN(m)
        ELSE /\ ~IsNaN(m)
             /\ SumOver(rows, col, J) = Frac(m[1] * Cardinality(J), m[2])

CountedDays(y, code) ==
    {daily.rows[i]["Data"] : i \in
        {i \in Idx(daily) :
            /\ daily.rows[i]["Rok"] = y
            /\ daily.rows[i]["Kod stacji"] = code
            /\ ~IsNaN(daily.rows[i]["Daily mean PM25"])
            /\ daily.rows[i]["Daily mean PM25"][1] >
                   threshold * daily.rows[i]["Daily mean PM25"][2]}}

Counted == daily # None /\ over_counts # None

\* C1: every (Rok, Kod stacji) row of count_overnorm_days's result reports the
\* number of distinct Data values among the pair's input rows whose daily mean
\* is strictly above the threshold; a mean equal to or below it is not counted.
C1_CountIsDaysAbove ==
    Counted =>
        \A i \in Idx(over_counts) :
            LET r == over_counts.rows[i]
            IN  r[over_counts.columns[3]] =
                    Cardinality(CountedDays(r["Rok"], r["Kod stacji"]))

\* a pair is reported although one of its days has a mean equal to the threshold
C1_Witness ==
    /\ Counted
    /\ \E i \in Idx(over_counts), j \in Idx(daily) :
          /\ daily.rows[j]["Rok"] = over_counts.rows[i]["Rok"]
          /\ daily.rows[j]["Kod stacji"] = over_counts.rows[i]["Kod stacji"]
          /\ daily.rows[j]["Daily mean PM25"] = Num(threshold)
          /\ over_counts.rows[i][over_counts.columns[3]] >= 1

ExpectedCountColumn ==
    (10 :> "Liczba dni PM25 > 10") @@ (15 :> "Liczba dni PM25 > 15")

\* C2: a (Rok, Kod stacji) pair of the input with no day above the threshold has
\* no row in the result; with no input row above the threshold the result is
\* empty; the columns are always Rok, Kod stacji, 'Liczba dni PM25 > <threshold>'.
C2_NoRowWithoutExceedance ==
    Counted =>
        /\ over_counts.columns =
               <<"Rok", "Kod stacji", ExpectedCountColumn[threshold]>>
        /\ \A j \in Idx(daily) :
              CountedDays(daily.rows[j]["Rok"], daily.rows[j]["Kod stacji"]) = {}
                  => ~\E i \in Idx(over_counts) :
                        /\ over_counts.rows[i]["Rok"] = daily.rows[j]["Rok"]
                        /\ over_counts.rows[i]["Kod stacji"] =
                               daily.rows[j]["Kod stacji"]
        /\ (\A j \in Idx(daily) :
               CountedDays(daily.rows[j]["Rok"], daily.rows[j]["Kod stacji"]) = {})
               => over_counts.rows = <<>>

\* a non-empty input without any day above the threshold, and an empty result
C2_Witness ==
    /\ Counted
    /\ daily.rows # <<>>
    /\ \A j \in Idx(daily) :
          CountedDays(daily.rows[j]["Rok"], daily.rows[j]["Kod stacji"]) = {}
    /\ over_counts.rows = <<>>

MonthlyGroup(y, m, city, code) ==
    {i \in Idx(formated) :
        /\ CalendarDate[formated.rows[i]["datetime"].sec][1] = y
        /\ CalendarDate[formated.rows[i]["datetime"].sec][2] = m
        /\ formated.rows[i]["Miejscowosc"] = city
        /\ formated.rows[i]["Kod stacji"] = code}

\* C4: calc_monthly_means has exactly one row for each (year, month,
\* Miejscowosc, Kod stacji) combination of the input, none for any other, and
\* its Mean PM25 is the arithmetic mean of the PM25 values of the combination's
\* input rows (missing values left out).
C4_MonthlyMeans ==
    monthly_means # None =>
        /\ \A i \in Idx(formated) :
              LET ts == formated.rows[i]["datetime"]
                  g  == {j \in Idx(monthly_means) :
                            /\ monthly_means.rows[j]["Rok"] = CalendarDate[ts.sec][1]
                            /\ monthly_means.rows[j]["Miesiac"] = CalendarDate[ts.sec][2]
                            /\ monthly_means.rows[j]["Miejscowosc"] =
                                   formated.rows[i]["Miejscowosc"]
                            /\ monthly_means.rows[j]["Kod stacji"] =
                                   formated.rows[i]["Kod stacji"]}
              IN  Cardinality(g) = 1
        /\ \A j \in Idx(monthly_means) :
              LET r == monthly_means.rows[j]
                  g == MonthlyGroup(r["Rok"], r["Miesiac"], r["Miejscowosc"],
                                    r["Kod stacji"])
              IN  /\ g # {}
                  /\ IsMeanOf(r["Mean PM25"], formated.rows, "PM25", g)

\* a monthly mean taken over two days of one month, with two different values
C4_Witness ==
    /\ monthly_means # None
    /\ \E j \in Idx(monthly_means) :
          LET r == monthly_means.rows[j]
              g == MonthlyGroup(r["Rok"], r["Miesiac"], r["Miejscowosc"],
                                r["Kod stacji"])
          IN  /\ r["Mean PM25"] = Frac(35, 2)
              /\ \E a, b \in g :
                    formated.rows[a]["datetime"] # formated.rows[b]["datetime"]

CityGroup(y, m, city) ==
    {i \in Idx(monthly_means) :
        /\ monthly_means.rows[i]["Rok"] = y
        /\ monthly_means.rows[i]["Miesiac"] = m
        /\ monthly_means.rows[i]["Miejscowosc"] = city}

\* C5: calc_monthly_city_means has exactly one row for each (Rok, Miesiac,
\* Miejscowosc) of the station table, none for any other; its Mean PM25 is the
\* mean of the monthly means of the city's stations, each station once; the
\* station column is gone.
C5_CityMeans ==
    city_monthly # None =>
        /\ city_monthly.columns = <<"Rok", "Miesiac", "Miejscowosc", "Mean PM25">>
        /\ \A i \in Idx(monthly_means) :
              LET r == monthly_means.rows[i]
              IN  Cardinality({j \in Idx(city_monthly) :
                      /\ city_monthly.rows[j]["Rok"] = r["Rok"]
                      /\ city_monthly.rows[j]["Miesiac"] = r["Miesiac"]
                      /\ city_monthly.rows[j]["Miejscowosc"] = r["Miejscowosc"]}) = 1
        /\ \A j \in Idx(city_monthly) :
              LET r == city_monthly.rows[j]
                  g == CityGroup(r["Rok"], r["Miesiac"], r["Miejscowosc"])
              IN  /\ "Kod stacji" \notin DOMAIN r
                  /\ g # {}
                  /\ \A a, b \in g :
                        a # b => monthly_means.rows[a]["Kod stacji"] #
                                     monthly_means.rows[b]["Kod stacji"]
                  /\ IsMeanOf(r["Mean PM25"], monthly_means.rows, "Mean PM25", g)

\* a city of two stations, one with two measurements (10, 10) and one with one
\* (25): the city mean is 35/2, not the mean 15 of the three measurements
C5_Witness ==
    /\ city_monthly # None
    /\ \E j \in Idx(city_monthly) :
          LET r == city_monthly.rows[j]
              g == CityGroup(r["Rok"], r["Miesiac"], r["Miejscowosc"])
          IN  /\ Cardinality(g) = 2
              /\ r["Mean PM25"] = Frac(35, 2)
              /\ Len(formated.rows) = 3
              /\ \A i \in Idx(formated) :
                    /\ formated.rows[i]["Miejscowosc"] = r["Miejscowosc"]
                    /\ CalendarDate[formated.rows[i]["datetime"].sec][2] = r["Miesiac"]
                    /\ ~IsNaN(formated.rows[i]["PM25"])

DailyGroup(date, city, code) ==
    {i \in Idx(formated) :
        /\ CalendarDate[formated.rows[i]["datetime"].sec] = date
        /\ formated.rows[i]["Miejscowosc"] = city
        /\ formated.rows[i]["Kod stacji"] = code}

DailyComputed == formated # None /\ daily # None

\* C6: calc_daily_means has exactly one row for each (calendar date,
\* Miejscowosc, Kod stacji) combination of the input, none for any other, and
\* its Daily mean PM25 is the arithmetic mean of the PM25 values of the
\* station's input rows of that date (missing values left out).
C6_DailyMeans ==
    DailyComputed =>
        /\ \A i \in Idx(formated) :
              Cardinality({j \in Idx(daily) :
                  /\ daily.rows[j]["Data"] =
                         CalendarDate[formated.rows[i]["datetime"].sec]
                  /\ daily.rows[j]["Miejscowosc"] = formated.rows[i]["Miejscowosc"]
                  /\ daily.rows[j]["Kod stacji"] = formated.rows[i]["Kod stacji"]}) = 1
        /\ \A j \in Idx(daily) :
              LET r == daily.rows[j]
                  g == DailyGroup(r["Data"], r["Miejscowosc"], r["Kod stacji"])
              IN  /\ g # {}
                  /\ IsMeanOf(r["Daily mean PM25"], formated.rows, "PM25", g)

\* a daily mean over a value and a missing value of one day, and another day of
\* the same station and month kept apart
C6_Witness ==
    /\ DailyComputed
    /\ \E j, k \in Idx(daily) :
          LET r == daily.rows[j]
              g == DailyGroup(r["Data"], r["Miejscowosc"], r["Kod stacji"])
          IN  /\ \E a, b \in g : /\ IsNaN(formated.rows[a]["PM25"])
                                 /\ formated.rows[b]["PM25"] = Num(25)
              /\ r["Daily mean PM25"] = Num(25)
              /\ daily.rows[k]["Kod stacji"] = r["Kod stacji"]
              /\ daily.rows[k]["Data"] # r["Data"]
              /\ daily.rows[k]["Data"][2] = r["Data"][2]

YearIdx == {i \in Idx(over_counts) : over_counts.rows[i]["Rok"] = year}
CountOf(r) == r[over_counts.columns[3]]

\* rows part[1..k] are k different rows of the year, and no row of the year left
\* out beats one of them (sign 1: is larger, sign -1: is smaller)
IsExtremePart(part, k, sign) ==
    \E pick \in [1..k -> YearIdx] :
        /\ \A a, b \in 1..k : a # b => pick[a] # pick[b]
        /\ \A a \in 1..k : part[a] = over_counts.rows[pick[a]]
        /\ \A i \in YearIdx \ {pick[a] : a \in 1..k} : \A a \in 1..k :
              sign * CountOf(over_counts.rows[i]) <= sign * CountOf(part[a])

\* C9: every row top_bottom_stations returns belongs to the given year, and the
\* result is the n rows of that year with the largest count followed by the n
\* rows of that year with the smallest count (all of them when the year has
\* fewer than n rows).
C9_TopBottom ==
    top_bottom # None =>
        LET k == Min(n, Cardinality(YearIdx))
            rows == top_bottom.rows
        IN  /\ \A i \in 1..Len(rows) : rows[i]["Rok"] = year
            /\ Len(rows) = 2 * k
            /\ IsExtremePart(SubSeq(rows, 1, k), k, 1)
            /\ IsExtremePart(SubSeq(rows, k + 1, 2 * k), k, -1)

\* another year holds the largest count of the table, the given year has more
\* than 2n rows, and the result has 2n rows
C9_Witness ==
    /\ top_bottom # None
    /\ Len(top_bottom.rows) = 2 * n
    /\ Cardinality(YearIdx) > n
    /\ \E i \in Idx(over_counts) :
          /\ over_counts.rows[i]["Rok"] # year
          /\ \A j \in YearIdx :
                CountOf(over_counts.rows[j]) < CountOf(over_counts.rows[i])

Converted == df_pm25 # None /\ formated # None

\* the output rows of the cell in input row i and station column c
RowsOfCell(i, c) ==
    {j \in Idx(formated) :
        /\ formated.rows[j]["datetime"] = df_pm25.rows[i][DatetimeColumn]
        /\ formated.rows[j]["Miejscowosc"] = c[1]
        /\ formated.rows[j]["Kod stacji"] = c[2]}

StationCols == Range(df_pm25.columns) \ {DatetimeColumn}

\* C7 as stated: every (timestamp row, station column) cell yields exactly one
\* output row with its timestamp, Miejscowosc, Kod stacji and value, so the
\* output has (timestamps) x (station columns) rows and the four columns.
C7_EveryCellOneRow ==
    Converted =>
        /\ formated.columns = <<"datetime", "Miejscowosc", "Kod stacji", "PM25">>
        /\ Len(formated.rows) = Len(df_pm25.rows) * Cardinality(StationCols)
        /\ \A i \in Idx(df_pm25), c \in StationCols :
              /\ Cardinality(RowsOfCell(i, c)) = 1
              /\ df_pm25.rows[i][c].kind = "float" =>
                    \A j \in RowsOfCell(i, c) :
                        formated.rows[j]["PM25"] = df_pm25.rows[i][c].v

\* C7 (amended): every cell that holds a value yields exactly one output row with
\* its timestamp, Miejscowosc, Kod stacji and value; a cell whose value is
\* missing yields at most one row; every output row comes from a cell; the
\* output has at most (timestamps) x (station columns) rows, exactly that many
\* when no cell is missing, and the four columns.
C7_EveryValueOneRow ==
    Converted =>
        /\ formated.columns = <<"datetime", "Miejscowosc", "Kod stacji", "PM25">>
        /\ Len(formated.rows) <= Len(df_pm25.rows) * Cardinality(StationCols)
        /\ (\A i \in Idx(df_pm25), c \in StationCols : ~IsMissing(df_pm25.rows[i][c]))
               => Len(formated.rows) = Len(df_pm25.rows) * Cardinality(StationCols)
        /\ \A j \in Idx(formated) :
              \E i \in Idx(df_pm25), c \in StationCols : j \in RowsOfCell(i, c)
        /\ \A i \in Idx(df_pm25), c \in StationCols :
              /\ Cardinality(RowsOfCell(i, c)) <= 1
              /\ ~IsMissing(df_pm25.rows[i][c]) => Cardinality(RowsOfCell(i, c)) = 1
              /\ df_pm25.rows[i][c].kind = "float" =>
                    \A j \in RowsOfCell(i, c) :
                        formated.rows[j]["PM25"] = df_pm25.rows[i][c].v

\* a frame with a missing cell and a cell holding a value, reshaped by the
\* legacy stack: the missing cell has no row, the other has one
C7_Witness ==
    /\ Converted
    /\ pandas_stack = "legacy"
    /\ \E i, k \in Idx(df_pm25), c, d \in StationCols :
          /\ IsMissing(df_pm25.rows[i][c])
          /\ RowsOfCell(i, c) = {}
          /\ ~IsMissing(df_pm25.rows[k][d])
          /\ Cardinality(RowsOfCell(k, d)) = 1

\* the number a text stands for: " 151,112 " is 151.112, "abc" and "1,2,3" are
\* not numbers
NumberOfText ==
    (<<" ", "1", "5", "1", ",", "1", "1", "2", " ">> :> Frac(151112, 1000)) @@
    (<<"a", "b", "c">> :> NaN) @@
    (<<"1", ",", "2", ",", "3">> :> NaN)

\* C8: the PM25 of a row made from a text cell is the number the text stands for
\* once surrounding whitespace is stripped and the decimal comma replaced by a
\* point (" 151,112 " gives 151.112), and NaN when that is not a number.
C8_TextIsNormalised ==
    Converted =>
        \A i \in Idx(df_pm25), c \in StationCols :
            df_pm25.rows[i][c].kind = "str" =>
                /\ RowsOfCell(i, c) # {}
                /\ \A j \in RowsOfCell(i, c) :
                      formated.rows[j]["PM25"] = NumberOfText[df_pm25.rows[i][c].v]

\* one frame holding " 151,112 ", converted to 151.112, and "abc", converted to
\* NaN
C8_Witness ==
    /\ Converted
    /\ \E i, k \in Idx(df_pm25), c, d \in StationCols :
          /\ df_pm25.rows[i][c].kind = "str"
          /\ df_pm25.rows[i][c].v = <<" ", "1", "5", "1", ",", "1", "1", "2", " ">>
          /\ \E j \in RowsOfCell(i, c) : formated.rows[j]["PM25"] = <<18889, 125>>
          /\ df_pm25.rows[k][d].kind = "str"
          /\ df_pm25.rows[k][d].v = <<"a", "b", "c">>
          /\ \E j \in RowsOfCell(k, d) : IsNaN(formated.rows[j]["PM25"])

CallsOf(fn) == {i \in 1..Len(calls) : calls[i].fn = fn}
TheCall(fn) == calls[CHOOSE i \in CallsOf(fn) : TRUE]

RECURSIVE RowsOfCleaned(_)
RowsOfCleaned(k) ==
    IF k = 0 THEN <<>> ELSE RowsOfCleaned(k - 1) \o calls[2 * k].ret.rows

\* C3: make_pm25_data downloads and cleans each requested year once, with
\* (year, gios_url_ids[year], gios_pm25_file[year]) and clean_info[year], the
\* cleaning receiving the downloaded frame; downloads the metadata once with
\* the 'meta' id; then calls midnight, update_stations, add_city and to_csv in
\* this order, each on the result of the stage before (midnight on the cleaned
\* frames, the cleaned frame itself for one year) and the metadata; writes one
\* CSV, add_city's result to outfile; and returns (that frame, the metadata).
C3_PipelineOrder ==
    pc = "done" =>
        LET K == Len(make.years)
        IN  /\ Len(calls) = 2 * K + 5
            /\ \A k \in 1..K :
                  LET y == make.years[k]
                  IN  /\ calls[2 * k - 1].fn = "download_gios_archive"
                      /\ calls[2 * k - 1].args =
                             <<y, gios_url_ids[y], gios_pm25_file[y]>>
                      /\ calls[2 * k].fn = "clean_pm25"
                      /\ calls[2 * k].args = <<calls[2 * k - 1].ret, clean_info[y]>>
            /\ Cardinality(CallsOf("download_gios_archive")) = K
            /\ Cardinality(CallsOf("clean_pm25")) = K
            /\ Cardinality(CallsOf("download_gios_meta")) = 1
            /\ TheCall("download_gios_meta").args = <<gios_meta_id>>
            /\ CallsOf("download_gios_meta") \subseteq 1..(2 * K + 2)
            /\ calls[2 * K + 2].fn = "midnight"
            /\ calls[2 * K + 2].args[1].rows = RowsOfCleaned(K)
            /\ K = 1 => calls[2 * K + 2].args = <<calls[2].ret>>
            /\ calls[2 * K + 3].fn = "update_stations"
            /\ calls[2 * K + 3].args =
                   <<calls[2 * K + 2].ret, TheCall("download_gios_meta").ret>>
            /\ calls[2 * K + 4].fn = "add_city"
            /\ calls[2 * K + 4].args =
                   <<calls[2 * K + 3].ret, TheCall("download_gios_meta").ret>>
            /\ calls[2 * K + 5].fn = "to_csv"
            /\ calls[2 * K + 5].args = <<calls[2 * K + 4].ret, make.outfile>>
            /\ csv = <<[path |-> make.outfile, frame |-> calls[2 * K + 4].ret]>>
            /\ make.ret = <<calls[2 * K + 4].ret, TheCall("download_gios_meta").ret>>

\* a finished run for one year to PM25_test.csv in which midnight moved a time
\* and update_stations renamed a column
C3_Witness ==
    /\ pc = "done"
    /\ make.years = <<2015>>
    /\ make.outfile = "PM25_test.csv"
    /\ Len(csv) = 1
    /\ TheCall("midnight").ret.rows # TheCall("midnight").args[1].rows
    /\ TheCall("update_stations").ret.columns #
           TheCall("update_stations").args[1].columns

\* the times at 00:00:00 in use, with the calendar date of the day before:
\* 2015-01-01, 2015-01-02, 2016-03-01, 2018-01-01
DayBefore ==
    (1420070400 :> <<2014, 12, 31>>) @@ (1420156800 :> <<2015, 1, 1>>) @@
    (1456790400 :> <<2016, 2, 29>>) @@ (1514764800 :> <<2017, 12, 31>>)

\* C10: midnight moves every time at 00:00:00 back by exactly one second, to
\* 23:59:59 of the previous calendar day, keeping the sub-second part; every
\* other time, every measurement, the columns and the row order are unchanged.
C10_Midnight ==
    \A k \in CallsOf("midnight") :
        LET a == calls[k].args[1]
            r == calls[k].ret
        IN  /\ r.columns = a.columns
            /\ Len(r.rows) = Len(a.rows)
            /\ \A i \in 1..Len(a.rows) :
                  LET tin  == a.rows[i]["datetime"]
                      tout == r.rows[i]["datetime"]
                  IN  /\ IF tin.sec \in DOMAIN DayBefore
                         THEN /\ tout.sec = tin.sec - 1
                              /\ tout.ms = tin.ms
                              /\ dt_date(tout) = DayBefore[tin.sec]
                              /\ tout.sec % 86400 = 23 * 3600 + 59 * 60 + 59
                         ELSE tout = tin
                      /\ \A c \in Range(a.columns) \ {"datetime"} :
                            r.rows[i][c] = a.rows[i][c]

\* midnight was given 2015-01-02 00:00:00.110 after 2015-01-01 23:00:00.105 and
\* returned 2015-01-01 23:59:59.110 after the unchanged first time
C10_Witness ==
    \E k \in CallsOf("midnight") :
        /\ Len(calls[k].args[1].rows) = 2
        /\ calls[k].args[1].rows[1]["datetime"] = [sec |-> 1420153200, ms |-> 105]
        /\ calls[k].args[1].rows[2]["datetime"] = [sec |-> 1420156800, ms |-> 110]
        /\ calls[k].ret.rows[1]["datetime"] = [sec |-> 1420153200, ms |-> 105]
        /\ calls[k].ret.rows[2]["datetime"] = [sec |-> 1420156799, ms |-> 110]

\* the metadata rows that list column name c among their old codes
ListedIn(c, meta) ==
    {i \in 1..Len(meta.rows) :
        \E j \in 1..Len(meta.rows[i]["Stary Kod stacji"]) :
            /\ meta.rows[i]["Stary Kod stacji"][j] \notin {",", " "}
            /\ meta.rows[i]["Stary Kod stacji"][j] = c}

\* C11: update_stations renames every column whose name is among the old codes
\* of a metadata row (a field may hold several codes) to that row's current
\* Kod stacji; the other columns, datetime among them, keep their name; the
\* column order and all values are unchanged.
C11_UpdateStations ==
    \A k \in CallsOf("update_stations") :
        LET a    == calls[k].args[1]
            meta == calls[k].args[2]
            r    == calls[k].ret
        IN  /\ Len(r.columns) = Len(a.columns)
            /\ \A j \in 1..Len(a.columns) :
                  IF ListedIn(a.columns[j], meta) # {}
                  THEN \E i \in ListedIn(a.columns[j], meta) :
                          r.columns[j] = meta.rows[i]["Kod stacji"]
                  ELSE r.columns[j] = a.columns[j]
            /\ Len(r.rows) = Len(a.rows)
            /\ \A i \in 1..Len(a.rows), j \in 1..Len(a.columns) :
                  r.rows[i][r.columns[j]] = a.rows[i][a.columns[j]]

\* update_stations was given columns datetime, DsJelGorOgin, DsWrocAlWisn and
\* metadata listing DsWrocAlWisn second among the old codes of DsWrocAlWisnNew
C11_Witness ==
    \E k \in CallsOf("update_stations") :
        /\ calls[k].args[1].columns = <<"datetime", "DsJelGorOgin", "DsWrocAlWisn">>
        /\ calls[k].args[2].rows[2]["Stary Kod stacji"] =
               <<"DsWrocAlWisnOld", ",", " ", "DsWrocAlWisn">>
        /\ calls[k].ret.columns = <<"datetime", "DsJelGorOgin", "DsWrocAlWisnNew">>
        /\ Len(calls[k].ret.rows) >= 1

CleaningFunctions == {"clean_pm25", "midnight", "update_stations", "add_city"}

WojewOf ==
    ("DsJelGorOgin" :> "dolnoslaskie") @@ ("DsWrocAlWisn" :> "dolnoslaskie") @@
    ("DsWrocWybCon" :> "dolnoslaskie") @@ ("KpBydPlPozna" :> "kujawsko-pomorskie")

\* the mean of column col over the rows I that hold a value, NaN when none does
AvgOver(rows, col, I) ==
    LET J == {i \in I : ~IsNaN(rows[i][col])}
    IN  IF J = {} THEN NaN ELSE RDivInt(SumOver(rows, col, J), Cardinality(J))

\* the daily mean of station code on date d
StationDayMean(code, d) ==
    AvgOver(formated.rows, "PM25",
            {i \in Idx(formated) :
                /\ formated.rows[i]["Kod stacji"] = code
                /\ CalendarDate[formated.rows[i]["datetime"].sec] = d})

RECURSIVE SumStationMeans(_, _)
SumStationMeans(codes, d) ==
    IF codes = {} THEN Num(0)
    ELSE LET c == CHOOSE x \in codes : TRUE
         IN  RAdd(StationDayMean(c, d), SumStationMeans(codes \ {c}, d))

\* the mean, over the stations of voivodeship w, of their daily means of date d
WojewDayMean(w, d) ==
    LET codes == {c \in {formated.rows[i]["Kod stacji"] : i \in Idx(formated)} :
                     WojewOf[c] = w /\ ~IsNaN(StationDayMean(c, d))}
    IN  IF codes = {} THEN NaN
        ELSE RDivInt(SumStationMeans(codes, d), Cardinality(codes))

\* the dates on which voivodeship w exceeds the treshold
WojewDays(w) ==
    {d \in {CalendarDate[formated.rows[i]["datetime"].sec] : i \in Idx(formated)} :
        /\ ~IsNaN(WojewDayMean(w, d))
        /\ WojewDayMean(w, d)[1] > treshold * WojewDayMean(w, d)[2]}

\* C13: every voivodeship that has a row in the input appears in the result of
\* wojew_over_treshold, with the number of calendar dates on which the mean,
\* over its stations, of the per-station daily PM25 means is strictly greater
\* than treshold (possibly 0); the entries are in non-increasing order of count.
C13_WojewCounts ==
    wojew_counts # None =>
        /\ \A i \in Idx(formated) :
              LET w == WojewOf[formated.rows[i]["Kod stacji"]]
                  J == {j \in Idx(wojew_counts) :
                           wojew_counts.rows[j]["Wojewodztwo"] = w}
              IN  /\ Cardinality(J) = 1
                  /\ \A j \in J : wojew_counts.rows[j]["exceeds_treshold"] =
                                      Cardinality(WojewDays(w))
        /\ \A j \in 1..(Len(wojew_counts.rows) - 1) :
              wojew_counts.rows[j]["exceeds_treshold"] >=
                  wojew_counts.rows[j + 1]["exceeds_treshold"]

\* treshold 15; on one date the Wroclaw station has 10 twice and the Jelenia
\* Gora station 25, so that dolnoslaskie has mean 17.5 (the mean of all three
\* values is 15) and one day; kujawsko-pomorskie has 10 and no day, listed last
C13_Witness ==
    /\ wojew_counts # None
    /\ treshold = 15
    /\ Len(formated.rows) = 4
    /\ \A i \in 1..4 : formated.rows[i]["datetime"].sec = 1420074000
    /\ \A i \in 1..2 : /\ formated.rows[i]["Kod stacji"] = "DsWrocAlWisn"
                       /\ formated.rows[i]["PM25"] = Num(10)
    /\ formated.rows[3]["Kod stacji"] = "DsJelGorOgin"
    /\ formated.rows[3]["PM25"] = Num(25)
    /\ formated.rows[4]["Kod stacji"] = "KpBydPlPozna"
    /\ formated.rows[4]["PM25"] = Num(10)
    /\ Len(wojew_counts.rows) = 2
    /\ wojew_counts.rows[1]["Wojewodztwo"] = "dolnoslaskie"
    /\ wojew_counts.rows[1]["exceeds_treshold"] = 1
    /\ wojew_counts.rows[2]["Wojewodztwo"] = "kujawsko-pomorskie"
    /\ wojew_counts.rows[2]["exceeds_treshold"] = 0

\* the localities of city_monthly in the years given
PlottedLocalities ==
    {city_monthly.rows[i]["Miejscowosc"] : i \in
        {i \in Idx(city_monthly) : city_monthly.rows[i]["Rok"] \in Range(plot.years)}}

DrawnAxes == {k \in 1..Len(plot.fig.axes) : plot.fig.axes[k].heatmap # <<>>}

\* C14: heatmaps_means draws one heatmap for every locality of city_monthly in
\* the given years: as many heatmaps as distinct localities, one titled with
\* each, every heatmap with exactly the requested years as rows, and no axes
\* holding a heatmap switched off.
C14_OneHeatmapPerLocality ==
    plot # None =>
        /\ Cardinality(DrawnAxes) = Cardinality(PlottedLocalities)
        /\ \A c \in PlottedLocalities :
              \E k \in DrawnAxes : plot.fig.axes[k].heatmap[1].title = c
        /\ \A k \in DrawnAxes : plot.fig.axes[k].heatmap[1].index = plot.years
        /\ \A k \in 1..Len(plot.fig.axes) :
              ~plot.fig.axes[k].visible => k \notin DrawnAxes

\* frame g has the columns and the values of frame f
SameFrame(f, g) == Range(f.columns) = Range(g.columns) /\ f.rows = g.rows

\* C15: no function of stats.py modifies the frame it is given: across every
\* call the caller's frame keeps its set of columns and its values.
C15_StatsInputsUntouched ==
    [][/\ pc = "convert_df" => SameFrame(df_pm25, df_pm25')
       /\ pc = "calc_monthly_means" => SameFrame(formated, formated')
       /\ pc = "calc_monthly_city_means" => SameFrame(monthly_means, monthly_means')
       /\ pc = "calc_daily_means" => SameFrame(formated, formated')
       /\ pc = "count_overnorm_days" => SameFrame(daily, daily')
       /\ pc = "top_bottom_stations" => SameFrame(over_counts, over_counts')
       /\ pc = "wojew_over_treshold" => SameFrame(formated, formated')]_vars

\* the rows of the given year with a count above (sign 1) or below (sign -1)
\* that of row r
Beating(r, sign) ==
    {i \in YearIdx : sign * CountOf(over_counts.rows[i]) > sign * CountOf(r)}

\* C16: when the given year has k rows the result of top_bottom_stations has
\* exactly 2*min(n, k) rows, first min(n, k) rows that are among the min(n, k)
\* largest, then min(n, k) rows that are among the min(n, k) smallest; when the
\* year has rows but fewer than 2n, a station is in both groups and so listed
\* twice; when the year has no rows the result is empty.
C16_TwiceMin ==
    top_bottom # None =>
        LET k    == Cardinality(YearIdx)
            m    == Min(n, k)
            rows == top_bottom.rows
        IN  /\ Len(rows) = 2 * m
            /\ \A a \in 1..Len(rows) :
                  IF a <= m THEN Cardinality(Beating(rows[a], 1)) < m
                  ELSE Cardinality(Beating(rows[a], -1)) < m
            /\ (1 <= k /\ k < 2 * n) =>
                  \E a \in 1..m, b \in (m + 1)..Len(rows) :
                      rows[a]["Kod stacji"] = rows[b]["Kod stacji"]
            /\ k = 0 => rows = <<>>

\* n = 2 and a year of three rows: four rows come back, the second largest
\* being also the second smallest
C16_Witness ==
    /\ top_bottom # None
    /\ n = 2
    /\ Cardinality(YearIdx) = 3
    /\ Len(top_bottom.rows) = 4
    /\ top_bottom.rows[2] = top_bottom.rows[4]
    /\ top_bottom.rows[1] # top_bottom.rows[3]

\* the count frame f reports for (Rok, Kod stacji) = (y, code), 0 when the
\* pair has no row
ReportedCount(f, y, code) ==
    LET I == {i \in Idx(f) : f.rows[i]["Rok"] = y /\ f.rows[i]["Kod stacji"] = code}
    IN  IF I = {} THEN 0 ELSE f.rows[CHOOSE i \in I : TRUE][f.columns[3]]

\* the pairs a count frame reports
ReportedPairs(f) == {<<f.rows[i]["Rok"], f.rows[i]["Kod stacji"]>> : i \in Idx(f)}

\* counts hi, taken at the higher threshold, against counts lo of the same frame
NoMoreThan(hi, lo) ==
    /\ \A i \in Idx(daily) :
          ReportedCount(hi, daily.rows[i]["Rok"], daily.rows[i]["Kod stacji"]) <=
              ReportedCount(lo, daily.rows[i]["Rok"], daily.rows[i]["Kod stacji"])
    /\ ReportedPairs(hi) \subseteq ReportedPairs(lo)

\* C17: count_overnorm_days is monotone in the threshold: of two counts of the
\* same daily frame, the one at the higher (or equal) threshold gives every
\* (Rok, Kod stacji) pair a count no larger (an absent pair counting 0) and
\* reports no pair the other does not report.
C17_Monotone ==
    recount # None =>
        /\ threshold <= recount.threshold => NoMoreThan(recount.over_counts, over_counts)
        /\ recount.threshold <= threshold => NoMoreThan(over_counts, recount.over_counts)

\* thresholds 10 and then 15: a pair counted twice and then once, and a pair
\* reported at 10 that is absent at 15
C17_Witness ==
    /\ recount # None
    /\ threshold = 10 /\ recount.threshold = 15
    /\ \E i \in Idx(over_counts) :
          /\ over_counts.rows[i][over_counts.columns[3]] = 2
          /\ ReportedCount(recount.over_counts, over_counts.rows[i]["Rok"],
                           over_counts.rows[i]["Kod stacji"]) = 1
    /\ ReportedPairs(over_counts) \ ReportedPairs(recount.over_counts) # {}

\* the calendar days of year y on which station code has a measurement
MeasuredDays(y, code) ==
    {CalendarDate[formated.rows[i]["datetime"].sec] : i \in
        {i \in Idx(formated) :
            /\ formated.rows[i]["Kod stacji"] = code
            /\ CalendarDate[formated.rows[i]["datetime"].sec][1] = y
            /\ ~IsNaN(formated.rows[i]["PM25"])}}

\* C18: in every result of calc_daily_means the Rok of a row is the year of its
\* Data and no (Data, Miejscowosc, Kod stacji) combination has two rows; and
\* the count that count_overnorm_days then reports for a (Rok, Kod stacji) pair
\* is at most the number of calendar days of that year on which the station has
\* a measurement.
C18_DaysBoundCounts ==
    /\ DailyComputed =>
          /\ \A i \in Idx(daily) : daily.rows[i]["Rok"] = daily.rows[i]["Data"][1]
          /\ \A i, j \in Idx(daily) :
                (/\ daily.rows[i]["Data"] = daily.rows[j]["Data"]
                 /\ daily.rows[i]["Miejscowosc"] = daily.rows[j]["Miejscowosc"]
                 /\ daily.rows[i]["Kod stacji"] = daily.rows[j]["Kod stacji"]) => i = j
    /\ (DailyComputed /\ over_counts # None) =>
          \A i \in Idx(over_counts) :
              over_counts.rows[i][over_counts.columns[3]] <=
                  Cardinality(MeasuredDays(over_counts.rows[i]["Rok"],
                                           over_counts.rows[i]["Kod stacji"]))

\* a station measured above the threshold at 23:00 on 2014-12-31 and twice in
\* 2015: it is reported with one day for 2014 and with two days, all it has,
\* for 2015
C18_Witness ==
    /\ DailyComputed /\ over_counts # None
    /\ \E i, j \in Idx(over_counts) :
          /\ over_counts.rows[i]["Kod stacji"] = over_counts.rows[j]["Kod stacji"]
          /\ over_counts.rows[i]["Rok"] = 2014
          /\ over_counts.rows[i][over_counts.columns[3]] = 1
          /\ over_counts.rows[j]["Rok"] = 2015
          /\ over_counts.rows[j][over_counts.columns[3]] = 2
          /\ Cardinality(MeasuredDays(2015, over_counts.rows[j]["Kod stacji"])) = 2

\* the calendar dates of the times in use that are not at 00:00:00:
\* 2015-01-01 23:00:00 and 2015-01-02 01:00:00
DayOf == (1420153200 :> <<2015, 1, 1>>) @@ (1420160400 :> <<2015, 1, 2>>)

\* the calendar dates of the times at 00:00:00 themselves
DayAt ==
    (1420070400 :> <<2015, 1, 1>>) @@ (1420156800 :> <<2015, 1, 2>>) @@
    (1456790400 :> <<2016, 3, 1>>) @@ (1514764800 :> <<2018, 1, 1>>)

\* the day a measurement stamped t is to be averaged into
AveragedInto(t) == IF t.sec \in DOMAIN DayBefore THEN DayBefore[t.sec] ELSE DayOf[t.sec]

\* the frame given to midnight, and for its j-th column the values as rows
Stamped == TheCall("midnight").args[1]
StampedValues(j) ==
    [i \in 1..Len(Stamped.rows) |-> [v |-> Stamped.rows[i][Stamped.columns[j]].v]]

\* the rows of daily for date d and the station of the j-th column of Stamped
DailyRowsOf(d, j) ==
    {k \in Idx(daily) :
        /\ daily.rows[k]["Data"] = d
        /\ daily.rows[k]["Kod stacji"] = TheCall("add_city").ret.columns[j][2]}

\* the mean of the j-th column of Stamped over the rows to be averaged into d
MeanInto(d, j) ==
    AvgOver(StampedValues(j), "v",
            {i \in 1..Len(Stamped.rows) : AveragedInto(Stamped.rows[i]["datetime"]) = d})

PipelineDaily == daily # None /\ CallsOf("midnight") # {} /\ CallsOf("add_city") # {}

\* C19: a measurement stamped 00:00:00 of day D is, after midnight, averaged by
\* calc_daily_means into the daily mean of day D-1 and never into that of day
\* D; when D is 1 January of year Y it is grouped under Rok = Y-1.
C19_MidnightCountsForDayBefore ==
    PipelineDaily =>
        \A i \in 1..Len(Stamped.rows), j \in 2..Len(Stamped.columns) :
            LET t == Stamped.rows[i]["datetime"]
            IN  (t.sec \in DOMAIN DayBefore /\ ~IsNaN(StampedValues(j)[i].v)) =>
                    /\ Cardinality(DailyRowsOf(DayBefore[t.sec], j)) = 1
                    /\ \A k \in DailyRowsOf(DayBefore[t.sec], j) :
                          /\ daily.rows[k]["Daily mean PM25"] =
                                 MeanInto(DayBefore[t.sec], j)
                          /\ daily.rows[k]["Rok"] = DayBefore[t.sec][1]
                          /\ (DayAt[t.sec][2] = 1 /\ DayAt[t.sec][3] = 1) =>
                                 daily.rows[k]["Rok"] = DayAt[t.sec][1] - 1
                    /\ \A k \in DailyRowsOf(DayAt[t.sec], j) :
                          daily.rows[k]["Daily mean PM25"] = MeanInto(DayAt[t.sec], j)

\* 151.112 stamped 2015-01-01 00:00:00 and no value stamped 23:00:00 of that
\* day: the station has the mean 151.112 under 2014-12-31 and Rok 2014, and a
\* missing mean under 2015-01-01
C19_Witness ==
    /\ PipelineDaily
    /\ Len(Stamped.rows) = 2
    /\ Stamped.rows[1]["datetime"] = [sec |-> 1420070400, ms |-> 0]
    /\ Stamped.rows[1][Stamped.columns[2]].v = Frac(151112, 1000)
    /\ Stamped.rows[2]["datetime"] = [sec |-> 1420153200, ms |-> 105]
    /\ IsNaN(Stamped.rows[2][Stamped.columns[2]].v)
    /\ \E k \in DailyRowsOf(<<2014, 12, 31>>, 2) :
          /\ daily.rows[k]["Rok"] = 2014
          /\ daily.rows[k]["Daily mean PM25"] = Frac(151112, 1000)
    /\ \A k \in DailyRowsOf(<<2015, 1, 1>>, 2) :
          IsNaN(daily.rows[k]["Daily mean PM25"])

====
